---- MODULE Spec2Model ----
(***************************************************************************)
(* Model of the two transitive-reachability-preserving relations of the    *)
(* borrow-check repository:                                                *)
(*   - the adjacency-list form, relation/src/lib.rs (Relation<F>), with    *)
(*     intrusive edge lists and an edge free list;                         *)
(*   - the sparse-matrix form, matrix-relation/src/lib.rs (Relation<R>)    *)
(*     on top of matrix-relation/src/bitvec.rs.                            *)
(*                                                                         *)
(* Every Rust method is an operator that maps a relation value to the      *)
(* relation value the method leaves behind.  A relation value carries a    *)
(* status: "ok", "panic" (an unwrap on None, or a failed debug_assert in a *)
(* debug build) or "diverge" (a loop that never ends).                     *)
(***************************************************************************)
EXTENDS Integers, Sequences, FiniteSets, TLC

\* ------------------------------------------------------------------ bounds
NumNodes == 3        \* nodes of the list-form relation: 0 .. NumNodes-1
MaxSlots == 4        \* largest edge store the list-form actions may build
MaxOps == 5          \* longest sequence of list-form calls explored
NumLow == 2          \* matrix-form nodes 0 .. NumLow-1 (chunk key 0) and 128
MaxMatrixEdges == 3  \* largest number of matrix cells add_edge may set
MaxLeafEdges == 2    \* most edges added to make a node a leaf
MaxMergedCells == 5  \* largest number of matrix cells merge may leave set
MaxReachOps == 4     \* calls on the list form before a relation is walked

\* ------------------------------------------------------- list form: types
None == 0                     \* Option::None; EdgeIndex is a NonZeroU32
Nodes == 0 .. (NumNodes - 1)

Incoming == "incoming"
Outgoing == "outgoing"

invert(direction) == IF direction = Incoming THEN Outgoing ELSE Incoming

Indices(in, out) == [incoming |-> in, outgoing |-> out]

NodeDataDefault == [first_edges |-> Indices(None, None)]

EdgeData(predecessor, successor, next_incoming, next_outgoing) ==
    [nodes |-> Indices(predecessor, successor),
     next_edges |-> Indices(next_incoming, next_outgoing)]

RelationNew ==
    [nodes |-> [n \in Nodes |-> NodeDataDefault],
     edges |-> << >>,
     edge_free_list |-> None,
     status |-> "ok"]

SeqRange(s) == {s[i] : i \in 1 .. Len(s)}

Panic(r) == [r EXCEPT !.status = "panic"]
Diverge(r) == [r EXCEPT !.status = "diverge"]

\* Edges::next, iterated to exhaustion from edge `e`: the slots visited, and
\* `end` = None when the chain ends, or the first revisited slot when the
\* chain is cyclic (the iterator then never returns None).
RECURSIVE EdgesFrom(_, _, _, _)
EdgesFrom(r, e, direction, acc) ==
    IF e = None \/ e \in SeqRange(acc)
    THEN [list |-> acc, end |-> e]
    ELSE EdgesFrom(r, r.edges[e].next_edges[direction], direction, Append(acc, e))

\* Relation::edges(node, direction)
edges_iter(r, node, direction) ==
    EdgesFrom(r, r.nodes[node].first_edges[direction], direction, << >>)

\* alloc_edge that reuses the head of the free list and leaves it the head
alloc_edge_keeps_head(r, edge_data) ==
    IF r.edge_free_list # None
    THEN LET free_edge == r.edge_free_list
         IN [r |-> [r EXCEPT !.edges[free_edge] = edge_data],
             edge |-> free_edge]
    ELSE [r |-> [r EXCEPT !.edges = Append(@, edge_data)],
          edge |-> Len(r.edges) + 1]

\* alloc_edge that forgets the rest of the free list when it reuses its head
alloc_edge_drops_rest(r, edge_data) ==
    IF r.edge_free_list # None
    THEN LET free_edge == r.edge_free_list
         IN [r |-> [r EXCEPT !.edges[free_edge] = edge_data,
                             !.edge_free_list = None],
             edge |-> free_edge]
    ELSE [r |-> [r EXCEPT !.edges = Append(@, edge_data)],
          edge |-> Len(r.edges) + 1]

\* Relation::alloc_edge: the relation after allocation and the slot id.
alloc_edge(r, edge_data) ==
    IF r.edge_free_list # None
    THEN LET free_edge == r.edge_free_list
             next_free_edge == r.edges[free_edge].next_edges.outgoing
         IN [r |-> [r EXCEPT !.edges[free_edge] = edge_data,
                             !.edge_free_list = next_free_edge],
             edge |-> free_edge]
    ELSE [r |-> [r EXCEPT !.edges = Append(@, edge_data)],
          edge |-> Len(r.edges) + 1]

\* The duplicate scan of add_edge_internal:
\*   self.successors_internal(predecessor).any(|s| s == predecessor)
\* "found", "absent", or "diverge" when the list is cyclic and holds no match.
DuplicateScan(r, predecessor, successor) ==
    LET w == edges_iter(r, predecessor, Outgoing)
    IN IF \E i \in 1 .. Len(w.list) : r.edges[w.list[i]].nodes.outgoing = predecessor
       THEN "found"
       ELSE IF w.end # None THEN "diverge" ELSE "absent"

\* add_edge_internal that stores the new edge with no next-incoming link,
\* so the successor's older incoming edges fall off its list
add_edge_internal_unlinked(r, predecessor, successor) ==
    LET scan == DuplicateScan(r, predecessor, successor)
    IN IF scan = "found" THEN [r |-> r, ret |-> FALSE]
       ELSE IF scan = "diverge" THEN [r |-> Diverge(r), ret |-> FALSE]
       ELSE LET next_outgoing == r.nodes[predecessor].first_edges.outgoing
                a == alloc_edge(r, EdgeData(predecessor, successor,
                                            None, next_outgoing))
                r1 == [a.r EXCEPT !.nodes[successor].first_edges.incoming = a.edge]
                r2 == [r1 EXCEPT !.nodes[predecessor].first_edges.outgoing = a.edge]
            IN [r |-> r2, ret |-> TRUE]

\* Relation::add_edge_internal: the relation afterwards and the result.
add_edge_internal(r, predecessor, successor) ==
    LET scan == DuplicateScan(r, predecessor, successor)
    IN IF scan = "found" THEN [r |-> r, ret |-> FALSE]
       ELSE IF scan = "diverge" THEN [r |-> Diverge(r), ret |-> FALSE]
       ELSE LET next_incoming == r.nodes[successor].first_edges.incoming
                next_outgoing == r.nodes[predecessor].first_edges.outgoing
                a == alloc_edge(r, EdgeData(predecessor, successor,
                                            next_incoming, next_outgoing))
                r1 == [a.r EXCEPT !.nodes[successor].first_edges.incoming = a.edge]
                r2 == [r1 EXCEPT !.nodes[predecessor].first_edges.outgoing = a.edge]
            IN [r |-> r2, ret |-> TRUE]

\* Relation::count_edges_saturating
count_edges_saturating(r, node, direction) ==
    LET first == r.nodes[node].first_edges[direction]
    IN IF first = None THEN 0
       ELSE IF r.edges[first].next_edges[direction] = None THEN 1 ELSE 2

\* The loop of Relation::unlink_edge, standing at `cur_edge`.
RECURSIVE UnlinkLoop(_, _, _, _, _, _)
UnlinkLoop(r, cur_edge, direction, edge, next_edge, seen) ==
    LET nxt == r.edges[cur_edge].next_edges[direction]
    IN IF nxt = None THEN Panic(r)
       ELSE IF nxt = edge
            THEN [r EXCEPT !.edges[cur_edge].next_edges[direction] = next_edge]
            ELSE IF nxt \in seen THEN Diverge(r)
                 ELSE UnlinkLoop(r, nxt, direction, edge, next_edge, seen \cup {nxt})

\* unlink_edge that empties the list when the edge is its head, instead of
\* making next_edge the head
unlink_edge_drop_rest(r, node, direction, edge, next_edge) ==
    LET first == r.nodes[node].first_edges[direction]
    IN IF first = None THEN Panic(r)
       ELSE IF first = edge
            THEN [r EXCEPT !.nodes[node].first_edges[direction] = None]
            ELSE UnlinkLoop(r, first, direction, edge, next_edge, {first})

\* Relation::unlink_edge
unlink_edge(r, node, direction, edge, next_edge) ==
    LET first == r.nodes[node].first_edges[direction]
    IN IF first = None THEN Panic(r)
       ELSE IF first = edge
            THEN [r EXCEPT !.nodes[node].first_edges[direction] = next_edge]
            ELSE UnlinkLoop(r, first, direction, edge, next_edge, {first})

\* The body of the `while let` loop of Relation::move_edges_to_free_list,
\* standing at edge `next_edge_to_remove` with free-list head
\* `next_free_list_edge`.  `seen` holds the loop states already visited: a
\* repeated loop state means that the loop never ends.
RECURSIVE MoveEdgesLoop(_, _, _, _, _, _)
MoveEdgesLoop(r, node, direction, next_edge_to_remove, next_free_list_edge, seen) ==
    LET inv_direction == invert(direction)
        here == <<next_edge_to_remove, next_free_list_edge, r>>
    IN IF r.status # "ok" THEN r
       ELSE IF next_edge_to_remove = None
       THEN [r EXCEPT !.edge_free_list = next_free_list_edge,
                      !.nodes[node].first_edges[direction] = None]
       ELSE IF here \in seen THEN Diverge(r)
       ELSE LET edge_to_remove == next_edge_to_remove
                edge_data == r.edges[edge_to_remove]
            IN IF edge_data.nodes[inv_direction] # node
               THEN Panic(r)      \* debug_assert_eq!(edge_data.nodes[inv_direction], node)
               ELSE LET other_node == edge_data.nodes[direction]
                        other_next_edge == edge_data.next_edges[inv_direction]
                        r1 == [r EXCEPT !.edges[edge_to_remove].next_edges.outgoing =
                                            next_free_list_edge]
                        r2 == unlink_edge(r1, other_node, inv_direction,
                                          edge_to_remove, other_next_edge)
                    IN MoveEdgesLoop(r2, node, direction,
                                     edge_data.next_edges[direction],
                                     edge_to_remove, seen \cup {here})

\* move_edges_to_free_list that starts from an empty free list instead of
\* self.edge_free_list
move_edges_to_free_list_fresh(r, node, direction) ==
    MoveEdgesLoop(r, node, direction, r.nodes[node].first_edges[direction],
                  None, {})

\* Relation::move_edges_to_free_list
move_edges_to_free_list(r, node, direction) ==
    MoveEdgesLoop(r, node, direction, r.nodes[node].first_edges[direction],
                  r.edge_free_list, {})

\* The link that move_only_outgoing_edge_to_free_list hands to unlink_edge as
\* the edge's successor in the successor's incoming list:
\*   successor_next = edge_data.next_edges.outgoing();
successor_next_of(edge_data) == edge_data.next_edges.outgoing

\* move_only_outgoing_edge_to_free_list without the final
\* `self.edge_free_list = Some(edge_to_remove)`
move_only_outgoing_edge_dropped(r, node) ==
    LET edge_to_remove == r.nodes[node].first_edges.outgoing
    IN IF edge_to_remove = None THEN [r |-> Panic(r), node |-> node]
       ELSE LET r0 == [r EXCEPT !.nodes[node].first_edges.outgoing = None]
                edge_data == r0.edges[edge_to_remove]
                successor_node == edge_data.nodes.outgoing
                successor_next == successor_next_of(edge_data)
                r1 == [r0 EXCEPT !.edges[edge_to_remove].next_edges.outgoing =
                                     r0.edge_free_list]
                r2 == unlink_edge(r1, successor_node, Incoming,
                                  edge_to_remove, successor_next)
            IN IF edge_data.nodes.incoming # node
               THEN [r |-> Panic(r0), node |-> successor_node]
               ELSE [r |-> r2, node |-> successor_node]

\* Relation::move_only_outgoing_edge_to_free_list: the relation afterwards and
\* the node that was the target of the edge.
move_only_outgoing_edge_to_free_list(r, node) ==
    LET edge_to_remove == r.nodes[node].first_edges.outgoing
    IN IF edge_to_remove = None THEN [r |-> Panic(r), node |-> node]
       ELSE LET r0 == [r EXCEPT !.nodes[node].first_edges.outgoing = None]
                edge_data == r0.edges[edge_to_remove]
                successor_node == edge_data.nodes.outgoing
                successor_next == successor_next_of(edge_data)
                r1 == [r0 EXCEPT !.edges[edge_to_remove].next_edges.outgoing =
                                     r0.edge_free_list]
                r2 == unlink_edge(r1, successor_node, Incoming,
                                  edge_to_remove, successor_next)
            IN IF edge_data.nodes.incoming # node
               THEN [r |-> Panic(r0), node |-> successor_node]
               ELSE IF r2.status # "ok" THEN [r |-> r2, node |-> successor_node]
               ELSE [r |-> [r2 EXCEPT !.edge_free_list = edge_to_remove],
                     node |-> successor_node]

\* move_only_incoming_edge_to_free_list without the final
\* `self.edge_free_list = Some(edge_to_remove)`
move_only_incoming_edge_dropped(r, node) ==
    LET edge_to_remove == r.nodes[node].first_edges.incoming
    IN IF edge_to_remove = None THEN [r |-> Panic(r), node |-> node]
       ELSE LET r0 == [r EXCEPT !.nodes[node].first_edges.incoming = None]
                edge_data == r0.edges[edge_to_remove]
                predecessor_node == edge_data.nodes.incoming
                predecessor_next == edge_data.next_edges.outgoing
                r1 == [r0 EXCEPT !.edges[edge_to_remove].next_edges.outgoing =
                                     r0.edge_free_list]
                r2 == unlink_edge(r1, predecessor_node, Outgoing,
                                  edge_to_remove, predecessor_next)
            IN IF edge_data.nodes.outgoing # node
               THEN [r |-> Panic(r0), node |-> predecessor_node]
               ELSE [r |-> r2, node |-> predecessor_node]

\* Relation::move_only_incoming_edge_to_free_list: the relation afterwards and
\* the node that was the origin of the edge.
move_only_incoming_edge_to_free_list(r, node) ==
    LET edge_to_remove == r.nodes[node].first_edges.incoming
    IN IF edge_to_remove = None THEN [r |-> Panic(r), node |-> node]
       ELSE LET r0 == [r EXCEPT !.nodes[node].first_edges.incoming = None]
                edge_data == r0.edges[edge_to_remove]
                predecessor_node == edge_data.nodes.incoming
                predecessor_next == edge_data.next_edges.outgoing
                r1 == [r0 EXCEPT !.edges[edge_to_remove].next_edges.outgoing =
                                     r0.edge_free_list]
                r2 == unlink_edge(r1, predecessor_node, Outgoing,
                                  edge_to_remove, predecessor_next)
            IN IF edge_data.nodes.outgoing # node
               THEN [r |-> Panic(r0), node |-> predecessor_node]
               ELSE IF r2.status # "ok" THEN [r |-> r2, node |-> predecessor_node]
               ELSE [r |-> [r2 EXCEPT !.edge_free_list = edge_to_remove],
                     node |-> predecessor_node]

\* RedirectLoop without the assignment of `target` to the edge's endpoint
RECURSIVE RedirectLoopKeepsEndpoint(_, _, _, _, _)
RedirectLoopKeepsEndpoint(r, direction, target, edge_to_redirect, seen) ==
    LET here == <<edge_to_redirect, r>>
    IN IF edge_to_redirect = None THEN r
       ELSE IF here \in seen THEN Diverge(r)
       ELSE LET first_edge_of_target == r.nodes[target].first_edges[direction]
                tmp == r.edges[edge_to_redirect].next_edges[direction]
                r1 == [r EXCEPT
                         !.edges[edge_to_redirect].next_edges[direction] =
                             first_edge_of_target]
                r2 == [r1 EXCEPT !.nodes[target].first_edges[direction] =
                                     edge_to_redirect]
            IN RedirectLoopKeepsEndpoint(r2, direction, target, tmp, seen \cup {here})

\* The `while let` loop of redirect_incoming_edges (direction = Incoming) and
\* of redirect_outgoing_edges (direction = Outgoing): every edge of `node`'s
\* list gets `target` as its endpoint on node's side and is pushed on the head
\* of `target`'s list.
RECURSIVE RedirectLoop(_, _, _, _, _)
RedirectLoop(r, direction, target, edge_to_redirect, seen) ==
    LET here == <<edge_to_redirect, r>>
    IN IF edge_to_redirect = None THEN r
       ELSE IF here \in seen THEN Diverge(r)
       ELSE LET first_edge_of_target == r.nodes[target].first_edges[direction]
                tmp == r.edges[edge_to_redirect].next_edges[direction]
                r1 == [r EXCEPT
                         !.edges[edge_to_redirect].nodes[invert(direction)] = target,
                         !.edges[edge_to_redirect].next_edges[direction] =
                             first_edge_of_target]
                r2 == [r1 EXCEPT !.nodes[target].first_edges[direction] =
                                     edge_to_redirect]
            IN RedirectLoop(r2, direction, target, tmp, seen \cup {here})

\* Relation::redirect_incoming_edges
redirect_incoming_edges(r, node, successor) ==
    LET r1 == RedirectLoop(r, Incoming, successor,
                           r.nodes[node].first_edges.incoming, {})
    IN IF r1.status # "ok" THEN r1
       ELSE [r1 EXCEPT !.nodes[node].first_edges.incoming = None]

\* Relation::redirect_outgoing_edges
redirect_outgoing_edges(r, node, predecessor) ==
    LET r1 == RedirectLoop(r, Outgoing, predecessor,
                           r.nodes[node].first_edges.outgoing, {})
    IN IF r1.status # "ok" THEN r1
       ELSE [r1 EXCEPT !.nodes[node].first_edges.outgoing = None]

\* successors_internal(node).collect() / predecessors_internal(node).collect():
\* the endpoints in list order.
endpoints(r, list, direction) ==
    [i \in 1 .. Len(list) |-> r.edges[list[i]].nodes[direction]]

\* AddAllPairs with the arguments of add_edge_internal swapped
RECURSIVE AddAllPairsSwapped(_, _, _, _, _)
AddAllPairsSwapped(r, successors, predecessors, i, j) ==
    IF r.status # "ok" \/ i > Len(successors) THEN r
    ELSE IF j > Len(predecessors)
         THEN AddAllPairsSwapped(r, successors, predecessors, i + 1, 1)
         ELSE AddAllPairsSwapped(add_edge_internal(r, successors[i], predecessors[j]).r,
                                 successors, predecessors, i, j + 1)

\* The nested `for s in successors { for &p in predecessors.iter() {..} }` of
\* redirect_all_edges, standing at the i-th successor and j-th predecessor.
RECURSIVE AddAllPairs(_, _, _, _, _)
AddAllPairs(r, successors, predecessors, i, j) ==
    IF r.status # "ok" \/ i > Len(successors) THEN r
    ELSE IF j > Len(predecessors)
         THEN AddAllPairs(r, successors, predecessors, i + 1, 1)
         ELSE AddAllPairs(add_edge_internal(r, predecessors[j], successors[i]).r,
                          successors, predecessors, i, j + 1)

\* Relation::redirect_all_edges
redirect_all_edges(r, node) ==
    LET out == edges_iter(r, node, Outgoing)
        in == edges_iter(r, node, Incoming)
        successors == endpoints(r, out.list, Outgoing)
        predecessors == endpoints(r, in.list, Incoming)
        r1 == move_edges_to_free_list(r, node, Outgoing)
        r2 == IF r1.status # "ok" THEN r1
              ELSE move_edges_to_free_list(r1, node, Incoming)
    IN IF out.end # None \/ in.end # None THEN Diverge(r)  \* collect() never ends
       ELSE AddAllPairs(r2, successors, predecessors, 1, 1)

\* Relation::remove_edges
remove_edges(r, node) ==
    LET incoming_count == count_edges_saturating(r, node, Incoming)
        outgoing_count == count_edges_saturating(r, node, Outgoing)
    IN IF incoming_count = 0 THEN move_edges_to_free_list(r, node, Outgoing)
       ELSE IF outgoing_count = 0 THEN move_edges_to_free_list(r, node, Incoming)
       ELSE IF outgoing_count = 1
            THEN LET m == move_only_outgoing_edge_to_free_list(r, node)
                 IN IF m.r.status # "ok" THEN m.r
                    ELSE redirect_incoming_edges(m.r, node, m.node)
       ELSE IF incoming_count = 1
            THEN LET m == move_only_incoming_edge_to_free_list(r, node)
                 IN IF m.r.status # "ok" THEN m.r
                    ELSE redirect_outgoing_edges(m.r, node, m.node)
       ELSE redirect_all_edges(r, node)

\* Relation::successors / successors_internal: the nodes yielded, in order
\* (as far as the iteration gets when the list is cyclic).
successors(r, node) ==
    endpoints(r, edges_iter(r, node, Outgoing).list, Outgoing)

\* Relation::predecessors / predecessors_internal
predecessors(r, node) ==
    endpoints(r, edges_iter(r, node, Incoming).list, Incoming)

\* ----------------------------------------------------- matrix form: bitvec
\* A Word (u128) is the set of its set bit positions, 0 .. WordBits-1:
\* `|` is union, `&` intersection, `& !` difference, `^` symmetric
\* difference and `!= 0` non-emptiness.
WordBits == 128

\* The nodes of the matrix-form relation.  Relation::new(129) has the rows
\* 0 .. 128, of which 128 lies in the chunk with key 1; the rows
\* NumLow .. 127 never get an edge and are left out of the model.
MNodes == (0 .. (NumLow - 1)) \cup {WordBits}

Xor(a, b) == (a \ b) \cup (b \ a)

SparseChunk(key, bits) == [key |-> key, bits |-> bits]

\* SparseChunk::one
one(index) == SparseChunk(index \div 128, {index % 128})

\* SparseChunk::any
any(chunk) == chunk.bits # {}

\* SparseChunk::bits_eq
bits_eq(chunk, other) == chunk.bits = other.bits

\* bits >> i
Shr(bits, i) == {b - i : b \in {x \in bits : x >= i}}

\* SparseChunk::iter: (0..128) is mapped to (i, bits >> i) and cut by
\* take_while at the first zero word; the number of pairs that pass.
ChunkIterTaken(chunk) ==
    IF \A i \in 0 .. 127 : Shr(chunk.bits, i) # {} THEN 128
    ELSE CHOOSE n \in 0 .. 127 :
             /\ Shr(chunk.bits, n) = {}
             /\ \A i \in 0 .. (n - 1) : Shr(chunk.bits, i) # {}

\* SparseChunk::iter over (0..127): the last bit of the word is never looked at
chunk_iter_short(chunk) ==
    LET taken == IF ChunkIterTaken(chunk) > 127 THEN 127 ELSE ChunkIterTaken(chunk)
        kept == {i \in 0 .. (taken - 1) : 0 \in Shr(chunk.bits, i)}
    IN [k \in 1 .. Cardinality(kept) |->
           chunk.key * 128 + (CHOOSE i \in kept : Cardinality({j \in kept : j < i}) = k - 1)]

\* SparseChunk::iter: the pairs that pass take_while, filtered on bit 0 of
\* the shifted word and yielded as base + i in the order of i
chunk_iter(chunk) ==
    LET taken == ChunkIterTaken(chunk)
        kept == {i \in 0 .. (taken - 1) : 0 \in Shr(chunk.bits, i)}
    IN [k \in 1 .. Cardinality(kept) |->
           chunk.key * 128 + (CHOOSE i \in kept : Cardinality({j \in kept : j < i}) = k - 1)]

\* SparseBitSet::new: chunk_bits is a function from the stored keys to words
SparseBitSetNew == [k \in {} |-> {}]

\* the keys of a BTreeMap in iteration order
RECURSIVE SortedKeys(_)
SortedKeys(keys) ==
    IF keys = {} THEN << >>
    ELSE LET m == CHOOSE k \in keys : \A j \in keys : k <= j
         IN <<m>> \o SortedKeys(keys \ {m})

\* SparseBitSet::chunks
chunks(set) ==
    LET ks == SortedKeys(DOMAIN set)
    IN [i \in 1 .. Len(ks) |-> SparseChunk(ks[i], set[ks[i]])]

\* SparseBitSet::contains_chunk
contains_chunk(set, chunk) ==
    SparseChunk(chunk.key,
                IF chunk.key \in DOMAIN set THEN set[chunk.key] \cap chunk.bits ELSE {})

\* BTreeMap insert / remove of one entry
MapInsert(set, key, bits) ==
    [k \in DOMAIN set \cup {key} |-> IF k = key THEN bits ELSE set[k]]
MapRemove(set, key) == [k \in DOMAIN set \ {key} |-> set[k]]

\* insert_chunk that returns new_bits instead of new_bits ^ old_bits
insert_chunk_all_bits(set, chunk) ==
    IF chunk.bits = {} THEN [set |-> set, chunk |-> chunk]
    ELSE LET old_bits == IF chunk.key \in DOMAIN set THEN set[chunk.key] ELSE {}
             new_bits == old_bits \cup chunk.bits
         IN [set |-> MapInsert(set, chunk.key, new_bits),
             chunk |-> SparseChunk(chunk.key, new_bits)]

\* SparseBitSet::insert_chunk: the set afterwards and the returned chunk
insert_chunk(set, chunk) ==
    IF chunk.bits = {} THEN [set |-> set, chunk |-> chunk]
    ELSE LET old_bits == IF chunk.key \in DOMAIN set THEN set[chunk.key] ELSE {}
             new_bits == old_bits \cup chunk.bits
         IN [set |-> MapInsert(set, chunk.key, new_bits),
             chunk |-> SparseChunk(chunk.key, Xor(new_bits, old_bits))]

\* remove_chunk that stores new_bits without testing it for zero
remove_chunk_keep_entry(set, chunk) ==
    IF chunk.bits = {} THEN [set |-> set, chunk |-> chunk]
    ELSE IF chunk.key \in DOMAIN set
         THEN LET old_bits == set[chunk.key]
                  new_bits == old_bits \ chunk.bits
              IN [set |-> MapInsert(set, chunk.key, new_bits),
                  chunk |-> SparseChunk(chunk.key, Xor(new_bits, old_bits))]
         ELSE [set |-> set, chunk |-> SparseChunk(chunk.key, {})]

\* remove_chunk that returns the bits it was asked to clear instead of
\* new_bits ^ old_bits
remove_chunk_asked_bits(set, chunk) ==
    IF chunk.bits = {} THEN [set |-> set, chunk |-> chunk]
    ELSE IF chunk.key \in DOMAIN set
         THEN LET old_bits == set[chunk.key]
                  new_bits == old_bits \ chunk.bits
              IN [set |-> IF new_bits = {} THEN MapRemove(set, chunk.key)
                          ELSE MapInsert(set, chunk.key, new_bits),
                  chunk |-> chunk]
         ELSE [set |-> set, chunk |-> SparseChunk(chunk.key, {})]

\* SparseBitSet::remove_chunk: the set afterwards and the returned chunk
remove_chunk(set, chunk) ==
    IF chunk.bits = {} THEN [set |-> set, chunk |-> chunk]
    ELSE IF chunk.key \in DOMAIN set
         THEN LET old_bits == set[chunk.key]
                  new_bits == old_bits \ chunk.bits
              IN [set |-> IF new_bits = {} THEN MapRemove(set, chunk.key)
                          ELSE MapInsert(set, chunk.key, new_bits),
                  chunk |-> SparseChunk(chunk.key, Xor(new_bits, old_bits))]
         ELSE [set |-> set, chunk |-> SparseChunk(chunk.key, {})]

\* SparseBitSet::insert_chunks: the set afterwards and `changed`
RECURSIVE InsertChunksFrom(_, _, _, _)
InsertChunksFrom(set, cs, i, changed) ==
    IF i > Len(cs) THEN [set |-> set, changed |-> changed]
    ELSE LET ins == insert_chunk(set, cs[i])
         IN InsertChunksFrom(ins.set, cs, i + 1, changed \/ any(ins.chunk))

insert_chunks(set, other) == InsertChunksFrom(set, chunks(other), 1, FALSE)

\* insert that reports whether the index is in the set afterwards
insert_reports_presence(set, index) ==
    LET ins == insert_chunk(set, one(index))
    IN [set |-> ins.set, changed |-> any(contains_chunk(ins.set, one(index)))]

\* SparseBitSet::contains / insert / remove
contains(set, index) == any(contains_chunk(set, one(index)))
insert(set, index) ==
    LET ins == insert_chunk(set, one(index))
    IN [set |-> ins.set, changed |-> any(ins.chunk)]
remove(set, index) ==
    LET rem == remove_chunk(set, one(index))
    IN [set |-> rem.set, changed |-> any(rem.chunk)]

\* SparseBitSet::iter: chunks().flat_map(|chunk| chunk.iter())
RECURSIVE FlatIter(_, _)
FlatIter(cs, i) ==
    IF i > Len(cs) THEN << >> ELSE chunk_iter(cs[i]) \o FlatIter(cs, i + 1)

set_iter(set) == FlatIter(chunks(set), 1)

\* SparseBitMatrix::new
SparseBitMatrixNew == [r \in MNodes |-> SparseBitSetNew]

\* SparseBitMatrix::add: the matrix afterwards and `changed`
matrix_add(vector, row, column) ==
    LET ins == insert(vector[row], column)
    IN [vector |-> [vector EXCEPT ![row] = ins.set], changed |-> ins.changed]

\* merge with the two rows taken the other way round
merge_swapped(vector, read, write) ==
    IF read # write
    THEN LET m == InsertChunksFrom(vector[read], chunks(vector[write]), 1, FALSE)
         IN [vector |-> [vector EXCEPT ![read] = m.set], changed |-> m.changed]
    ELSE [vector |-> vector, changed |-> FALSE]

\* SparseBitMatrix::merge: the matrix afterwards and `changed`; the loop over
\* bit_set_read.chunks() is the loop of insert_chunks
merge(vector, read, write) ==
    IF read # write
    THEN LET m == InsertChunksFrom(vector[write], chunks(vector[read]), 1, FALSE)
         IN [vector |-> [vector EXCEPT ![write] = m.set], changed |-> m.changed]
    ELSE [vector |-> vector, changed |-> FALSE]

\* is_subset with `any` in place of `all`: one chunk of sub found in sup is
\* taken to be enough
is_subset_any(vector, sub, sup) ==
    \/ sub = sup
    \/ LET bit_set_sub == vector[sub]
           bit_set_sup == vector[sup]
           cs == chunks(bit_set_sub)
       IN \E i \in 1..Len(cs) :
              bits_eq(cs[i], contains_chunk(bit_set_sup, cs[i]))

\* SparseBitMatrix::is_subset: sub == sup, or every chunk of row sub equals
\* what row sup contains of it
is_subset(vector, sub, sup) ==
    \/ sub = sup
    \/ LET bit_set_sub == vector[sub]
           bit_set_sup == vector[sup]
           cs == chunks(bit_set_sub)
       IN \A i \in 1..Len(cs) :
              bits_eq(cs[i], contains_chunk(bit_set_sup, cs[i]))

\* ------------------------------------------ bespoke: for_each_reachable
\* The inner loop of for_each_reachable, `for s in self.data.successors(p)`:
\* a successor that visited.insert(s) finds new is pushed.
RECURSIVE VisitSuccessors(_, _, _, _)
VisitSuccessors(ss, i, stack, visited) ==
    IF i > Len(ss) THEN [stack |-> stack, visited |-> visited]
    ELSE IF ss[i] \in visited
         THEN VisitSuccessors(ss, i + 1, stack, visited)
         ELSE VisitSuccessors(ss, i + 1, Append(stack, ss[i]),
                              visited \cup {ss[i]})

\* The outer loop, `while let Some(p) = stack.pop()`: op(p) is called, then
\* the successors of p are walked.  `succ[p]` is what successors(p) yields
\* and `finite[p]` tells whether that iterator ends; where it does not, the
\* inner loop never ends either.  `calls` lists the arguments of op.
RECURSIVE ForEachLoop(_, _, _, _, _)
ForEachLoop(succ, finite, stack, visited, calls) ==
    IF stack = << >> THEN [status |-> "ok", calls |-> calls]
    ELSE LET p == stack[Len(stack)]
             popped == SubSeq(stack, 1, Len(stack) - 1)
         IN IF ~ finite[p]
            THEN [status |-> "diverge", calls |-> Append(calls, p)]
            ELSE LET v == VisitSuccessors(succ[p], 1, popped, visited)
                 IN ForEachLoop(succ, finite, v.stack, v.visited, Append(calls, p))

\* for_each_reachable without the first visited.insert(r1)
for_each_reachable_unmarked(succ, finite, r1) ==
    ForEachLoop(succ, finite, <<r1>>, {}, << >>)

\* EdgeSubsetRelation::for_each_reachable and
\* MatrixRelation::for_each_reachable (the same body)
for_each_reachable(succ, finite, r1) ==
    ForEachLoop(succ, finite, <<r1>>, {r1}, << >>)

\* what self.data.successors(p) yields in the list form, per node
edge_successors(r) == [p \in Nodes |-> successors(r, p)]

\* whether the list-form iterator of p's outgoing edges reaches None
edge_finite(r) == [p \in Nodes |-> edges_iter(r, p, Outgoing).end = None]

\* matrix form, Relation::successors(p): the columns of row p in iteration
\* order
matrix_successors(vector) == [p \in DOMAIN vector |-> set_iter(vector[p])]

\* the iteration of a row always ends
matrix_finite(vector) == [p \in DOMAIN vector |-> TRUE]

\* ------------------------------------------------- matrix form: Relation<R>
\* FindLoop that enqueues every new chunk whole, dead or not
RECURSIVE FindLoopUnfiltered(_, _, _, _, _, _, _)
FindLoopUnfiltered(adjacency, dead_nodes, result, queue, ts, cs, st) ==
    IF cs # << >>
    THEN LET ins == insert_chunk(result, Head(cs))
             new_dead_targets == ins.chunk
         IN FindLoopUnfiltered(adjacency, dead_nodes, ins.set,
                     Append(queue, new_dead_targets), ts, Tail(cs), st)
    ELSE IF ts # << >>
    THEN FindLoopUnfiltered(adjacency, dead_nodes, result, queue, Tail(ts),
                  chunks(adjacency[Head(ts)]),
                  [st EXCEPT !.expanded = Append(@, Head(ts))])
    ELSE IF queue = << >>
    THEN [result |-> result, status |-> "ok", expanded |-> st.expanded,
          popped |-> st.popped]
    ELSE LET dead_targets == queue[Len(queue)]          \* Vec::pop
             rest == SubSeq(queue, 1, Len(queue) - 1)
         IN IF ~ bits_eq(contains_chunk(dead_nodes, dead_targets), dead_targets)
            THEN [result |-> result, status |-> "panic", expanded |-> st.expanded,
                  popped |-> Append(st.popped, dead_targets)]
            ELSE FindLoopUnfiltered(adjacency, dead_nodes, result, rest,
                          chunk_iter(dead_targets), << >>,
                          [st EXCEPT !.popped = Append(@, dead_targets)])

\* The worklist loop of find_live_targets.  The three nested loops (pop a
\* chunk, its members, the chunks of a member's row) run as one recursion:
\* `ts` are the members of the popped chunk still to expand and `cs` the
\* chunks of the current member's row still to insert.  `st.expanded`
\* lists the nodes whose row was read and `st.popped` the chunks popped from
\* the queue, in order.
RECURSIVE FindLoop(_, _, _, _, _, _, _)
FindLoop(adjacency, dead_nodes, result, queue, ts, cs, st) ==
    IF cs # << >>
    THEN LET ins == insert_chunk(result, Head(cs))
             new_dead_targets == contains_chunk(dead_nodes, ins.chunk)
         IN FindLoop(adjacency, dead_nodes, ins.set,
                     Append(queue, new_dead_targets), ts, Tail(cs), st)
    ELSE IF ts # << >>
    THEN FindLoop(adjacency, dead_nodes, result, queue, Tail(ts),
                  chunks(adjacency[Head(ts)]),
                  [st EXCEPT !.expanded = Append(@, Head(ts))])
    ELSE IF queue = << >>
    THEN [result |-> result, status |-> "ok", expanded |-> st.expanded,
          popped |-> st.popped]
    ELSE LET dead_targets == queue[Len(queue)]          \* Vec::pop
             rest == SubSeq(queue, 1, Len(queue) - 1)
         IN IF ~ bits_eq(contains_chunk(dead_nodes, dead_targets), dead_targets)
            THEN [result |-> result, status |-> "panic", expanded |-> st.expanded,
                  popped |-> Append(st.popped, dead_targets)]
            ELSE FindLoop(adjacency, dead_nodes, result, rest,
                          chunk_iter(dead_targets), << >>,
                          [st EXCEPT !.popped = Append(@, dead_targets)])

\* the trailing `for dead_chunk in dead_nodes.chunks() { result.remove_chunk }`
RECURSIVE RemoveChunksFrom(_, _, _)
RemoveChunksFrom(set, cs, i) ==
    IF i > Len(cs) THEN set
    ELSE RemoveChunksFrom(remove_chunk(set, cs[i]).set, cs, i + 1)

\* find_live_targets without the worklist: only the row of dead_target itself
find_live_targets_direct(adjacency, dead_target, dead_nodes) ==
    [result |-> RemoveChunksFrom(insert_chunks(SparseBitSetNew,
                                               adjacency[dead_target]).set,
                                 chunks(dead_nodes), 1),
     status |-> "ok", expanded |-> <<dead_target>>,
     popped |-> <<one(dead_target)>>]

\* find_live_targets without the trailing removal of the dead chunks
find_live_targets_keeps_dead(adjacency, dead_target, dead_nodes) ==
    LET f == FindLoop(adjacency, dead_nodes,
                      insert_chunk(SparseBitSetNew, one(dead_target)).set,
                      <<one(dead_target)>>, << >>, << >>,
                      [expanded |-> << >>, popped |-> << >>])
    IN [result |-> f.result,
        status |-> f.status, expanded |-> f.expanded, popped |-> f.popped]

\* Relation::find_live_targets
find_live_targets(adjacency, dead_target, dead_nodes) ==
    LET f == FindLoop(adjacency, dead_nodes,
                      insert_chunk(SparseBitSetNew, one(dead_target)).set,
                      <<one(dead_target)>>, << >>, << >>,
                      [expanded |-> << >>, popped |-> << >>])
    IN [result |-> RemoveChunksFrom(f.result, chunks(dead_nodes), 1),
        status |-> f.status, expanded |-> f.expanded, popped |-> f.popped]

\* RemoveLoop that never looks into the memo table: find_live_targets is
\* called for every dead target of every live source
RECURSIVE RemoveLoopNoMemo(_, _, _, _, _, _, _)
RemoveLoopNoMemo(m, live_nodes, dead_nodes, i, j, ts, inner) ==
    LET dcs == chunks(dead_nodes)
    IN IF m.status # "ok" \/ i > Len(live_nodes) THEN m
       ELSE IF j > Len(dcs)
       THEN RemoveLoopNoMemo(m, live_nodes, dead_nodes, i + 1, 1, << >>, FALSE)
       ELSE LET live_source == live_nodes[i]
                dead_chunk == dcs[j]
            IN IF ~ inner
               THEN LET dead_targets ==
                            contains_chunk(m.adjacency[live_source], dead_chunk)
                    IN IF ~ any(dead_targets)
                       THEN RemoveLoopNoMemo(m, live_nodes, dead_nodes, i, j + 1, << >>, FALSE)
                       ELSE RemoveLoopNoMemo(m, live_nodes, dead_nodes, i, j,
                                       chunk_iter(dead_targets), TRUE)
               ELSE IF ts # << >>
               THEN LET dead_target == Head(ts)
                        memo == FALSE
                        f == find_live_targets(m.adjacency, dead_target, dead_nodes)
                        live_target_set == IF memo THEN m.live_targets[dead_target]
                                           ELSE f.result
                        m1 == IF memo THEN m
                              ELSE [m EXCEPT
                                      !.live_targets = MapInsert(@, dead_target, f.result),
                                      !.status = f.status,
                                      !.calls = Append(@, dead_target)]
                        m2 == [m1 EXCEPT !.adjacency[live_source] =
                                            insert_chunks(@, live_target_set).set]
                    IN RemoveLoopNoMemo(IF m1.status # "ok" THEN m1 ELSE m2,
                                  live_nodes, dead_nodes, i, j, Tail(ts), TRUE)
               ELSE RemoveLoopNoMemo([m EXCEPT !.adjacency[live_source] =
                                            remove_chunk(@, dead_chunk).set],
                               live_nodes, dead_nodes, i, j + 1, << >>, FALSE)

\* The loops of remove_dead_nodes over live sources (index i of live_nodes),
\* dead chunks (index j of dcs) and the members `ts` of the current
\* dead_targets chunk; `inner` says that the loop stands inside the body for
\* chunk j.  m holds the adjacency matrix, the memo table live_targets, the
\* status and the list of find_live_targets calls made.
RECURSIVE RemoveLoop(_, _, _, _, _, _, _)
RemoveLoop(m, live_nodes, dead_nodes, i, j, ts, inner) ==
    LET dcs == chunks(dead_nodes)
    IN IF m.status # "ok" \/ i > Len(live_nodes) THEN m
       ELSE IF j > Len(dcs)
       THEN RemoveLoop(m, live_nodes, dead_nodes, i + 1, 1, << >>, FALSE)
       ELSE LET live_source == live_nodes[i]
                dead_chunk == dcs[j]
            IN IF ~ inner
               THEN LET dead_targets ==
                            contains_chunk(m.adjacency[live_source], dead_chunk)
                    IN IF ~ any(dead_targets)
                       THEN RemoveLoop(m, live_nodes, dead_nodes, i, j + 1, << >>, FALSE)
                       ELSE RemoveLoop(m, live_nodes, dead_nodes, i, j,
                                       chunk_iter(dead_targets), TRUE)
               ELSE IF ts # << >>
               THEN LET dead_target == Head(ts)
                        memo == dead_target \in DOMAIN m.live_targets
                        f == find_live_targets(m.adjacency, dead_target, dead_nodes)
                        live_target_set == IF memo THEN m.live_targets[dead_target]
                                           ELSE f.result
                        m1 == IF memo THEN m
                              ELSE [m EXCEPT
                                      !.live_targets = MapInsert(@, dead_target, f.result),
                                      !.status = f.status,
                                      !.calls = Append(@, dead_target)]
                        m2 == [m1 EXCEPT !.adjacency[live_source] =
                                            insert_chunks(@, live_target_set).set]
                    IN RemoveLoop(IF m1.status # "ok" THEN m1 ELSE m2,
                                  live_nodes, dead_nodes, i, j, Tail(ts), TRUE)
               ELSE RemoveLoop([m EXCEPT !.adjacency[live_source] =
                                            remove_chunk(@, dead_chunk).set],
                               live_nodes, dead_nodes, i, j + 1, << >>, FALSE)

\* ClearRows that empties every row of the matrix
ClearRowsEvery(adjacency, ds, i) == [r \in DOMAIN adjacency |-> SparseBitSetNew]

\* ClearRows that leaves the rows of the dead nodes as they are
ClearRowsSkipped(adjacency, ds, i) == adjacency

\* the trailing loop of remove_dead_nodes: every dead node's row is replaced
\* by SparseBitSet::new()
RECURSIVE ClearRows(_, _, _)
ClearRows(adjacency, ds, i) ==
    IF i > Len(ds) THEN adjacency
    ELSE ClearRows([adjacency EXCEPT ![ds[i]] = SparseBitSetNew], ds, i + 1)

\* Relation::remove_dead_nodes
remove_dead_nodes(adjacency, live_nodes, dead_nodes) ==
    LET m == RemoveLoop([adjacency |-> adjacency, live_targets |-> SparseBitSetNew,
                         status |-> "ok", calls |-> << >>],
                        live_nodes, dead_nodes, 1, 1, << >>, FALSE)
    IN IF m.status # "ok" THEN m
       ELSE [m EXCEPT !.adjacency = ClearRows(m.adjacency, set_iter(dead_nodes), 1)]

\* Relation::kill builds the dead bitset: insert_chunk(SparseChunk::one(n))
\* for each dead node
RECURSIVE DeadBits(_, _, _)
DeadBits(set, ds, i) ==
    IF i > Len(ds) THEN set
    ELSE DeadBits(insert_chunk(set, one(ds[i])).set, ds, i + 1)

\* ------------------------------------------------------------ state machine
VARIABLES nodes, edges, edge_free_list,  \* the fields of the list-form Relation<F>
          status,                        \* "ok", "panic" or "diverge"
          pre,                           \* the list-form relation before the last call
          last,                          \* the last list-form call and its result
          steps,                         \* number of list-form calls made so far
          used,                          \* number of nodes named by those calls
          peak,                          \* most edges the list form held at once so far
          adjacency,                     \* the field of the matrix-form Relation<R>
          mstatus,                       \* "ok" or "panic"
          mpre,                          \* the matrix before the last call
          mlast,                         \* the last matrix-form call and its result
          chunk_bits,                    \* the field of a SparseBitSet of its own
          set_pre,                       \* that bitset before the last call on it
          set_last,                      \* the last call on that bitset and its result
          members                        \* the indexes inserted and not removed since

lvars == <<nodes, edges, edge_free_list, status, pre, last, steps, used, peak>>
mvars == <<adjacency, mstatus, mpre, mlast>>
svars == <<chunk_bits, set_pre, set_last, members>>
vars == <<nodes, edges, edge_free_list, status, pre, last, steps, used, peak,
          adjacency, mstatus, mpre, mlast,
          chunk_bits, set_pre, set_last, members>>

\* the relation value held by the variables
Rel == [nodes |-> nodes, edges |-> edges, edge_free_list |-> edge_free_list,
        status |-> status]

\* the number of edges of the relation: the pairs (p, s) with s yielded by
\* successors(p) or p yielded by predecessors(s)
EdgeCount(r) ==
    Cardinality(UNION {{<<n, s>> : s \in SeqRange(successors(r, n))} \cup
                       {<<p, n>> : p \in SeqRange(predecessors(r, n))} : n \in Nodes})

SetRel(r) ==
    /\ nodes' = r.nodes
    /\ edges' = r.edges
    /\ edge_free_list' = r.edge_free_list
    /\ status' = r.status
    /\ peak' = IF r.status # "ok" THEN peak
               ELSE LET count == EdgeCount(r)
                    IN IF count > peak THEN count ELSE peak

\* The list form uses a node id only as an index and in equality tests, so
\* every call sequence is a renaming of one that names the nodes in the order
\* 0, 1, 2, ...: a call may name the nodes named before and the next ones.
Names(p, s) ==
    /\ p <= used
    /\ s <= (IF p = used THEN used + 1 ELSE used)
    /\ used' = IF p = used \/ s = used THEN (IF p = used /\ s = used + 1 THEN used + 2
                                              ELSE used + 1)
               ELSE used

NoCall == [op |-> "new", p |-> 0, s |-> 0, ret |-> FALSE]

MNoCall == [op |-> "new", p |-> 0, s |-> 0, ret |-> FALSE,
            dead |-> {}, live |-> << >>, calls |-> << >>]

SetNoCall == [op |-> "new", index |-> 0, chunk |-> SparseChunk(0, {}),
              other |-> SparseBitSetNew, changed |-> FALSE,
              ret |-> SparseChunk(0, {})]

\* SparseBitSet::new, and no index inserted yet
InitSet ==
    /\ chunk_bits = SparseBitSetNew
    /\ set_pre = SparseBitSetNew
    /\ set_last = SetNoCall
    /\ members = {}

\* Relation::new of both forms
Init ==
    /\ nodes = RelationNew.nodes
    /\ edges = RelationNew.edges
    /\ edge_free_list = RelationNew.edge_free_list
    /\ status = "ok"
    /\ pre = RelationNew
    /\ last = NoCall
    /\ steps = 0
    /\ used = 0
    /\ peak = 0
    /\ adjacency = SparseBitMatrixNew
    /\ mstatus = "ok"
    /\ mpre = SparseBitMatrixNew
    /\ mlast = MNoCall
    /\ InitSet

\* list form, Relation::add_edge(predecessor, successor)
AddEdge(p, s) ==
    /\ status = "ok"
    /\ steps < MaxOps
    /\ steps' = steps + 1
    /\ Names(p, s)
    /\ LET a == add_edge_internal(Rel, p, s)
       IN /\ Len(a.r.edges) <= MaxSlots
          /\ SetRel(a.r)
          /\ last' = [op |-> "add_edge", p |-> p, s |-> s, ret |-> a.ret]
    /\ pre' = Rel
    /\ UNCHANGED mvars
    /\ UNCHANGED svars

\* list form, Relation::remove_edges(node)
RemoveEdges(n) ==
    /\ status = "ok"
    /\ steps < MaxOps
    /\ steps' = steps + 1
    /\ Names(n, n)
    /\ LET r == remove_edges(Rel, n)
       IN /\ Len(r.edges) <= MaxSlots
          /\ SetRel(r)
          /\ last' = [op |-> "remove_edges", p |-> n, s |-> n, ret |-> FALSE]
    /\ pre' = Rel
    /\ UNCHANGED mvars
    /\ UNCHANGED svars

Next ==
    \/ \E p \in Nodes, s \in Nodes : AddEdge(p, s)
    \/ \E n \in Nodes : RemoveEdges(n)

Spec == Init /\ [][Next]_vars

\* the cells set in a matrix
Cells(vector) == {<<r, c>> \in MNodes \X MNodes : contains(vector[r], c)}

\* every ordering of a finite set
RECURSIVE Perms(_)
Perms(S) ==
    IF S = {} THEN {<< >>}
    ELSE UNION {{<<x>> \o q : q \in Perms(S \ {x})} : x \in S}

\* matrix form, Relation::add_edge(row1, row2)
MatrixAddEdge(row1, row2) ==
    /\ mstatus = "ok"
    /\ mlast = MNoCall
    /\ LET a == matrix_add(adjacency, row1, row2)
       IN /\ Cardinality(Cells(a.vector)) <= MaxMatrixEdges
          /\ adjacency' = a.vector
          /\ mlast' = [MNoCall EXCEPT !.op = "add_edge", !.p = row1, !.s = row2,
                                      !.ret = a.changed]
    /\ mpre' = adjacency
    /\ mstatus' = mstatus
    /\ UNCHANGED lvars
    /\ UNCHANGED svars

\* matrix form, Relation::kill(live_nodes, dead_nodes) with live_nodes and
\* dead_nodes a partition of the nodes: remove_dead_nodes on the dead bitset
Kill(live_nodes, dead) ==
    /\ mstatus = "ok"
    /\ mlast = MNoCall
    /\ LET dead_nodes == DeadBits(SparseBitSetNew, SortedKeys(dead), 1)
           m == remove_dead_nodes(adjacency, live_nodes, dead_nodes)
       IN /\ adjacency' = m.adjacency
          /\ mstatus' = m.status
          /\ mlast' = [MNoCall EXCEPT !.op = "remove_dead_nodes", !.dead = dead,
                                      !.live = live_nodes, !.calls = m.calls]
    /\ mpre' = adjacency
    /\ UNCHANGED lvars
    /\ UNCHANGED svars

\* matrix form, the tests' test(&r, expected): the relation is dumped and
\* compared after a call; the record of the call is dropped and the next
\* call may follow
MatrixTest ==
    /\ mstatus = "ok"
    /\ mlast # MNoCall
    /\ mlast' = MNoCall
    /\ mpre' = SparseBitMatrixNew
    /\ UNCHANGED <<adjacency, mstatus>>
    /\ UNCHANGED lvars
    /\ UNCHANGED svars

NextMatrix ==
    \/ \E row1 \in MNodes, row2 \in MNodes : MatrixAddEdge(row1, row2)
    \/ MatrixTest
    \/ \E dead \in SUBSET MNodes :
         \E live_nodes \in Perms(MNodes \ dead) : Kill(live_nodes, dead)

SpecMatrix == Init /\ [][NextMatrix]_vars


\* ------------------------------------------------- list form: observations
\* the edges seen by iterating successors(p) over all nodes p
SuccPairs(r) == {<<p, s>> \in Nodes \X Nodes : s \in SeqRange(successors(r, p))}

\* the edges seen by iterating predecessors(s) over all nodes s
PredPairs(r) == {<<p, s>> \in Nodes \X Nodes : p \in SeqRange(predecessors(r, s))}

\* how often x occurs in the sequence q
Count(q, x) == Cardinality({i \in 1 .. Len(q) : q[i] = x})

\* the slots of the free list, from its head along next_edges.outgoing
FreeList(r) == EdgesFrom(r, r.edge_free_list, Outgoing, << >>)

\* the number of nodes whose list in `direction` holds slot e
Holders(r, e, direction) ==
    Cardinality({n \in Nodes : e \in SeqRange(edges_iter(r, n, direction).list)})

Removed == last.op = "remove_edges" /\ status = "ok"
Added == last.op = "add_edge" /\ status = "ok"

\* C1: after remove_edges(n), for all nodes a and b other than n, if a->n and
\* n->b were edges before the call then b is yielded by successors(a).
C1_TransitivePreservation ==
    Removed =>
        \A a \in Nodes \ {last.p}, b \in Nodes \ {last.p} :
            (<<a, last.p>> \in SuccPairs(pre) /\ <<last.p, b>> \in SuccPairs(pre))
                => <<a, b>> \in SuccPairs(Rel)

\* C2: every edge (a, b) seen via successors after remove_edges(n) was an edge
\* before the call, or both (a, n) and (n, b) were edges before the call.
C2_NoPhantomEdges ==
    Removed =>
        \A e \in SuccPairs(Rel) :
            \/ e \in SuccPairs(pre)
            \/ (<<e[1], last.p>> \in SuccPairs(pre) /\ <<last.p, e[2]>> \in SuccPairs(pre))

\* C3: after remove_edges(n), n has no edges: successors(n) and
\* predecessors(n) are empty and no node yields n from its successors or
\* predecessors.
C3_RemovedNodeHasNoEdges ==
    Removed =>
        /\ successors(Rel, last.p) = << >>
        /\ predecessors(Rel, last.p) = << >>
        /\ \A m \in Nodes : /\ last.p \notin SeqRange(successors(Rel, m))
                            /\ last.p \notin SeqRange(predecessors(Rel, m))

\* C4: the collection of pairs yielded by successors equals the collection of
\* pairs yielded by predecessors, and every slot of an outgoing list is in
\* exactly one outgoing list and exactly one incoming list (and conversely).
C4_EdgeSetConsistency ==
    status = "ok" =>
        /\ \A p \in Nodes, s \in Nodes :
              Count(successors(Rel, p), s) = Count(predecessors(Rel, s), p)
        /\ \A e \in 1 .. Len(edges) :
              (Holders(Rel, e, Outgoing) > 0 \/ Holders(Rel, e, Incoming) > 0)
                  => (Holders(Rel, e, Outgoing) = 1 /\ Holders(Rel, e, Incoming) = 1)

\* C5: successors(p) yields each node at most once and predecessors(s) yields
\* each node at most once.
C5_NoDuplicateEdges ==
    status = "ok" =>
        \A n \in Nodes, m \in Nodes :
            /\ Count(successors(Rel, n), m) <= 1
            /\ Count(predecessors(Rel, n), m) <= 1

\* C6: add_edge(p, s) returns true exactly when s was not already a successor
\* of p, and then (p, s) is an edge afterwards; it returns false exactly when
\* s was already a successor of p, and then the relation is unchanged.
C6_AddEdgeResult ==
    Added =>
        /\ last.ret = (<<last.p, last.s>> \notin SuccPairs(pre))
        /\ last.ret => <<last.p, last.s>> \in SuccPairs(Rel)
        /\ ~ last.ret => Rel = pre

\* C7: every slot of the edge store is in exactly one node's outgoing list or
\* on the free list exactly once, never both and never neither.
C7_FreeListCorrect ==
    status = "ok" =>
        /\ FreeList(Rel).end = None
        /\ \A e \in 1 .. Len(edges) :
              \/ (Holders(Rel, e, Outgoing) = 1 /\ e \notin SeqRange(FreeList(Rel).list))
              \/ (Holders(Rel, e, Outgoing) = 0 /\ e \in SeqRange(FreeList(Rel).list))

\* C8: no call panics: every unwrap of unlink_edge succeeds and every
\* debug_assert on edge endpoints holds.
C8_NeverFails == status # "panic"

\* C2 witness: a remove_edges call has created an edge between two other
\* nodes that was not there before.
C2_Witness ==
    /\ Removed
    /\ \E e \in SuccPairs(Rel) \ SuccPairs(pre) : e[1] # last.p /\ e[2] # last.p

\* ------------------------------------------------ matrix form: observations
\* the dead nodes reachable from a along edges of E through dead nodes only
RECURSIVE DeadReach(_, _, _)
DeadReach(E, dead, D) ==
    LET more == {d \in dead \ D : \E x \in D : <<x, d>> \in E}
    IN IF more = {} THEN D ELSE DeadReach(E, dead, D \cup more)

\* there is a path a -> d1 -> ... -> dk -> b in E, k >= 0, every d_i dead
DeadPath(E, dead, a, b) ==
    \/ <<a, b>> \in E
    \/ \E d \in DeadReach(E, dead, {d0 \in dead : <<a, d0>> \in E}) : <<d, b>> \in E

Killed == mlast.op = "remove_dead_nodes" /\ mstatus = "ok"

\* C9: after remove_dead_nodes(live, dead), for every pair of live nodes
\* (a, b) the edge a->b is present if and only if before the call there was a
\* path from a to b whose interior nodes are all dead.
C9_MatrixTransitivePreservation ==
    Killed =>
        \A a \in MNodes \ mlast.dead, b \in MNodes \ mlast.dead :
            (<<a, b>> \in Cells(adjacency))
                <=> DeadPath(Cells(mpre), mlast.dead, a, b)

\* C9 witness: a call has bridged a path through two dead nodes, one of them
\* in another chunk than the live source, into an edge that was not there.
C9_Witness ==
    /\ Killed
    /\ \E a \in MNodes \ mlast.dead, b \in MNodes \ mlast.dead :
         \E d1 \in mlast.dead, d2 \in mlast.dead :
            /\ d1 # d2
            /\ d1 \div 128 # d2 \div 128
            /\ {<<a, d1>>, <<d1, d2>>, <<d2, b>>} \subseteq Cells(mpre)
            /\ <<a, b>> \notin Cells(mpre)
            /\ <<a, d2>> \notin Cells(mpre)
            /\ <<d1, b>> \notin Cells(mpre)
            /\ <<a, b>> \in Cells(adjacency)

\* C10: after remove_dead_nodes(live, dead) no edge is incident to a dead
\* node: every dead node's row is empty and no row holds a dead column.
C10_NoEdgeAtDeadNodes ==
    Killed =>
        \A d \in mlast.dead :
            /\ adjacency[d] = SparseBitSetNew
            /\ set_iter(adjacency[d]) = << >>
            /\ \A r \in MNodes : ~ contains(adjacency[r], d)

\* C10 witness: a call has removed a dead node that had an edge from a live
\* node, an edge to a live node and an edge to a dead node.
C10_Witness ==
    /\ Killed
    /\ \E d \in mlast.dead :
          /\ \E a \in MNodes \ mlast.dead : <<a, d>> \in Cells(mpre)
          /\ \E b \in MNodes \ mlast.dead : <<d, b>> \in Cells(mpre)
          /\ \E e \in mlast.dead : <<d, e>> \in Cells(mpre)

\* ------------------------------------------- both forms on the same calls
\* matrix form, Relation::new(NumNodes): one row per node of the list form
MatrixRelationNew == [r \in Nodes |-> SparseBitSetNew]

\* the edges `r --> c` that the matrix form's dump_and_assert prints
MatrixEdges(vector) ==
    {<<r, c>> \in (DOMAIN vector) \X (DOMAIN vector) : c \in SeqRange(set_iter(vector[r]))}

InitBoth ==
    /\ nodes = RelationNew.nodes
    /\ edges = RelationNew.edges
    /\ edge_free_list = RelationNew.edge_free_list
    /\ status = "ok"
    /\ pre = RelationNew
    /\ last = NoCall
    /\ steps = 0
    /\ used = 0
    /\ peak = 0
    /\ adjacency = MatrixRelationNew
    /\ mstatus = "ok"
    /\ mpre = MatrixRelationNew
    /\ mlast = MNoCall
    /\ InitSet

\* add_edge(predecessor, successor) on a list-form and on a matrix-form
\* relation, as the two multi_in_multi_out tests do before they remove a node
BothAddEdge(p, s) ==
    /\ status = "ok"
    /\ last.op # "remove_edges"
    /\ steps < MaxOps
    /\ steps' = steps + 1
    /\ Names(p, s)
    /\ LET a == add_edge_internal(Rel, p, s)
       IN /\ Len(a.r.edges) <= MaxSlots
          /\ SetRel(a.r)
          /\ last' = [op |-> "add_edge", p |-> p, s |-> s, ret |-> a.ret]
    /\ pre' = Rel
    /\ LET a == matrix_add(adjacency, p, s)
       IN /\ adjacency' = a.vector
          /\ mlast' = [MNoCall EXCEPT !.op = "add_edge", !.p = p, !.s = s,
                                      !.ret = a.changed]
    /\ mpre' = adjacency
    /\ mstatus' = mstatus
    /\ UNCHANGED svars

\* the removal of the two multi_in_multi_out tests: remove_edges(n) on the
\* list form, kill(all nodes except n, [n]) on the matrix form
BothRemove(n) ==
    /\ status = "ok"
    /\ last.op # "remove_edges"
    /\ steps < MaxOps
    /\ steps' = steps + 1
    /\ Names(n, n)
    /\ LET r == remove_edges(Rel, n)
       IN /\ SetRel(r)
          /\ last' = [op |-> "remove_edges", p |-> n, s |-> n, ret |-> FALSE]
    /\ pre' = Rel
    /\ LET live_nodes == SortedKeys(Nodes \ {n})
           dead_nodes == DeadBits(SparseBitSetNew, <<n>>, 1)
           m == remove_dead_nodes(adjacency, live_nodes, dead_nodes)
       IN /\ adjacency' = m.adjacency
          /\ mstatus' = m.status
          /\ mlast' = [MNoCall EXCEPT !.op = "remove_dead_nodes", !.dead = {n},
                                      !.live = live_nodes, !.calls = m.calls]
    /\ mpre' = adjacency
    /\ UNCHANGED svars

NextBoth ==
    \/ \E p \in Nodes, s \in Nodes : BothAddEdge(p, s)
    \/ \E n \in Nodes : BothRemove(n)

SpecBoth == InitBoth /\ [][NextBoth]_vars

\* C11: from the same added edges, remove_edges(n) of the list form and
\* remove_dead_nodes(all nodes except n, {n}) of the matrix form leave the
\* same set of (predecessor, successor) pairs.
C11_FormsAgree ==
    (last.op = "remove_edges" /\ mlast.op = "remove_dead_nodes")
        => /\ status = "ok"
           /\ mstatus = "ok"
           /\ SuccPairs(Rel) = MatrixEdges(adjacency)

\* two remove_edges calls in a row; the second is not reached when the first
\* does not return
RemoveTwo(r, x, y) ==
    LET r1 == remove_edges(r, x)
    IN IF r1.status # "ok" THEN r1 ELSE remove_edges(r1, y)

\* the matrix-form relation after add_edge(p, s) for every pair of E
RECURSIVE MatrixAddAll(_, _)
MatrixAddAll(vector, E) ==
    IF E = {} THEN vector
    ELSE LET e == CHOOSE x \in E : TRUE
         IN MatrixAddAll(matrix_add(vector, e[1], e[2]).vector, E \ {e})

\* matrix form: kill(live nodes in ascending order, dead) on the edges E
KillOn(E, dead) ==
    remove_dead_nodes(MatrixAddAll(MatrixRelationNew, E),
                      SortedKeys(Nodes \ dead),
                      DeadBits(SparseBitSetNew, SortedKeys(dead), 1))

\* C12: for two distinct nodes x and y, remove_edges(x); remove_edges(y)
\* leaves the same edge set as remove_edges(y); remove_edges(x), and that
\* edge set is the one remove_dead_nodes leaves with dead = {x, y}.
C12_RemovalOrderIndependent ==
    status = "ok" =>
        \A x \in Nodes, y \in Nodes :
            x # y =>
                LET xy == RemoveTwo(Rel, x, y)
                    yx == RemoveTwo(Rel, y, x)
                    m == KillOn(SuccPairs(Rel), {x, y})
                IN /\ xy.status = "ok"
                   /\ yx.status = "ok"
                   /\ SuccPairs(xy) = SuccPairs(yx)
                   /\ m.status = "ok"
                   /\ SuccPairs(xy) = MatrixEdges(m.adjacency)

\* C13: remove_edges(n); remove_edges(n) leaves the same state (edge set, edge
\* slots and free list) as a single remove_edges(n).
C13_RemovalIdempotent ==
    Removed => remove_edges(Rel, last.p) = Rel

\* C14: remove_edges(n) on a node n without incoming and outgoing edges
\* changes nothing: node records, edge slots and free-list head stay as they
\* were.
C14_RemoveEdgelessIsNoOp ==
    (Removed /\ pre.nodes[last.p].first_edges = Indices(None, None))
        => /\ nodes = pre.nodes
           /\ edges = pre.edges
           /\ edge_free_list = pre.edge_free_list

\* C14 witness: remove_edges was called on an edgeless node of a relation
\* that has edges in use and slots on the free list.
C14_Witness ==
    /\ last.op = "remove_edges"
    /\ status = "ok"
    /\ pre.nodes[last.p].first_edges = Indices(None, None)
    /\ pre.edge_free_list # None
    /\ SuccPairs(pre) # {}

\* add_edge(others[i], n) (direction = Incoming) or add_edge(n, others[i])
\* (direction = Outgoing) for every i, as add_remove_0 and add_remove_2 do
RECURSIVE AddLeafEdges(_, _, _, _, _)
AddLeafEdges(r, n, others, i, direction) ==
    IF r.status # "ok" \/ i > Len(others) THEN r
    ELSE AddLeafEdges(IF direction = Incoming
                      THEN add_edge_internal(r, others[i], n).r
                      ELSE add_edge_internal(r, n, others[i]).r,
                      n, others, i + 1, direction)

\* the leaf edges are added and remove_edges(n) follows at once
LeafRoundTrip(r, n, others, direction) ==
    LET r1 == AddLeafEdges(r, n, others, 1, direction)
    IN IF r1.status # "ok" THEN r1 ELSE remove_edges(r1, n)

\* n has no edge: it yields nothing and no node yields it
Edgeless(r, n) ==
    \A e \in SuccPairs(r) \cup PredPairs(r) : e[1] # n /\ e[2] # n

\* the lists of 1 .. MaxLeafEdges nodes other than n
LeafLists(n) ==
    UNION {[1 .. k -> Nodes \ {n}] : k \in 1 .. MaxLeafEdges}

\* C15: for an edgeless node n, adding edges that make n a leaf (only p->n
\* from other nodes, or only n->s to other nodes) and then calling
\* remove_edges(n) gives the edge set there was before the edges were added,
\* in the successors view and in the predecessors view.  The calls of the
\* round trip count towards MaxOps and its edges towards MaxSlots.
C15_LeafRoundTrip ==
    (status = "ok" /\ steps + 2 <= MaxOps) =>
        \A n \in Nodes :
            Edgeless(Rel, n) =>
                \A others \in LeafLists(n), direction \in {Incoming, Outgoing} :
                    LET r1 == AddLeafEdges(Rel, n, others, 1, direction)
                        r2 == LeafRoundTrip(Rel, n, others, direction)
                    IN (steps + Len(others) + 1 <= MaxOps /\ Len(r1.edges) <= MaxSlots)
                           => /\ r2.status = "ok"
                              /\ SuccPairs(r2) = SuccPairs(Rel)
                              /\ PredPairs(r2) = PredPairs(Rel)

\* C15 witness: a relation with an edgeless node n and two other nodes that
\* have edges of their own; edges from or to these two turn n into a leaf, in
\* either direction, before remove_edges(n) takes the edges away again.
C15_Witness ==
    /\ status = "ok"
    /\ \E n \in Nodes : \E others \in LeafLists(n) :
          /\ Edgeless(Rel, n)
          /\ Len(others) = 2
          /\ others[1] # others[2]
          /\ \A i \in 1 .. 2 : \E e \in SuccPairs(Rel) : others[i] \in {e[1], e[2]}
          /\ steps + Len(others) + 1 <= MaxOps
          /\ \A direction \in {Incoming, Outgoing} :
                LET r1 == AddLeafEdges(Rel, n, others, 1, direction)
                    r2 == LeafRoundTrip(Rel, n, others, direction)
                IN /\ Len(r1.edges) <= MaxSlots
                   /\ Cardinality(SuccPairs(r1) \ SuccPairs(Rel)) = 2
                   /\ r2.status = "ok"
                   /\ r2 # r1

\* ------------------------------------------------ a SparseBitSet of its own
\* the indexes, chunk keys and words that the calls on the bitset draw from:
\* the matrix nodes and the last bit of the first chunk
Indexes == MNodes \cup {WordBits - 1}
Keys == {i \div WordBits : i \in Indexes}
Words == SUBSET {i % WordBits : i \in Indexes}
Chunks == {SparseChunk(k, b) : k \in Keys, b \in Words}

\* the bitsets handed to insert_chunks: a non-zero word at some of the keys
BitSets == UNION {[D -> Words \ {{}}] : D \in SUBSET Keys}

\* the indexes that a chunk and a bitset stand for
ChunkMembers(chunk) == {chunk.key * WordBits + b : b \in chunk.bits}
SetMembers(set) == UNION {ChunkMembers(SparseChunk(k, set[k])) : k \in DOMAIN set}

\* SparseBitSet::clear
clear(set) == SparseBitSetNew

\* a call on the bitset is made when the caller has looked at the result of
\* the call before
SetReady == set_last = SetNoCall

\* the record of a call on the bitset; the SparseBitMatrix and the list-form
\* relation are other objects
SetCall(call) ==
    /\ set_pre' = chunk_bits
    /\ set_last' = call
    /\ UNCHANGED lvars
    /\ UNCHANGED mvars

\* SparseBitSet::insert(index)
SetInsert(index) ==
    /\ SetReady
    /\ LET ins == insert(chunk_bits, index)
       IN /\ chunk_bits' = ins.set
          /\ SetCall([SetNoCall EXCEPT !.op = "insert", !.index = index,
                                       !.changed = ins.changed])
    /\ members' = members \cup {index}

\* SparseBitSet::remove(index)
SetRemove(index) ==
    /\ SetReady
    /\ LET rem == remove(chunk_bits, index)
       IN /\ chunk_bits' = rem.set
          /\ SetCall([SetNoCall EXCEPT !.op = "remove", !.index = index,
                                       !.changed = rem.changed])
    /\ members' = members \ {index}

\* SparseBitSet::insert_chunk(chunk)
SetInsertChunk(chunk) ==
    /\ SetReady
    /\ LET ins == insert_chunk(chunk_bits, chunk)
       IN /\ chunk_bits' = ins.set
          /\ SetCall([SetNoCall EXCEPT !.op = "insert_chunk", !.chunk = chunk,
                                       !.ret = ins.chunk])
    /\ members' = members \cup ChunkMembers(chunk)

\* SparseBitSet::remove_chunk(chunk)
SetRemoveChunk(chunk) ==
    /\ SetReady
    /\ LET rem == remove_chunk(chunk_bits, chunk)
       IN /\ chunk_bits' = rem.set
          /\ SetCall([SetNoCall EXCEPT !.op = "remove_chunk", !.chunk = chunk,
                                       !.ret = rem.chunk])
    /\ members' = members \ ChunkMembers(chunk)

\* SparseBitSet::insert_chunks(other)
SetInsertChunks(other) ==
    /\ SetReady
    /\ LET ins == insert_chunks(chunk_bits, other)
       IN /\ chunk_bits' = ins.set
          /\ SetCall([SetNoCall EXCEPT !.op = "insert_chunks", !.other = other,
                                       !.changed = ins.changed])
    /\ members' = members \cup SetMembers(other)

\* SparseBitSet::clear()
SetClear ==
    /\ SetReady
    /\ chunk_bits' = clear(chunk_bits)
    /\ SetCall([SetNoCall EXCEPT !.op = "clear"])
    /\ members' = {}

\* SparseBitSet::iter(): the caller reads the bitset after a call; the set
\* stays as it is and the record of the call is dropped
SetIter ==
    /\ set_last # SetNoCall
    /\ set_last' = SetNoCall
    /\ set_pre' = SparseBitSetNew
    /\ UNCHANGED <<chunk_bits, members>>
    /\ UNCHANGED lvars
    /\ UNCHANGED mvars

NextSet ==
    \/ \E index \in Indexes : SetInsert(index)
    \/ \E index \in Indexes : SetRemove(index)
    \/ \E chunk \in Chunks : SetInsertChunk(chunk)
    \/ \E chunk \in Chunks : SetRemoveChunk(chunk)
    \/ \E other \in BitSets : SetInsertChunks(other)
    \/ SetClear
    \/ SetIter

SpecSet == Init /\ [][NextSet]_vars

\* the stored word at `key`, zero when there is no entry
Word(set, key) == IF key \in DOMAIN set THEN set[key] ELSE {}

\* no stored entry of a bitset is zero
NoZeroChunk(set) == \A k \in DOMAIN set : set[k] # {}

\* C16: after any sequence of insert, remove, insert_chunk, remove_chunk,
\* insert_chunks and clear, no stored entry of chunk_bits has bits == 0; the
\* same holds of every row of the matrix after any sequence of add_edge and
\* remove_dead_nodes.
C16_ChunkInvariant ==
    /\ NoZeroChunk(chunk_bits)
    /\ \A r \in DOMAIN adjacency : NoZeroChunk(adjacency[r])

\* C16 witness: a remove_chunk call has cleared the last bits of one entry
\* while another entry stays.
C16_Witness ==
    /\ set_last.op = "remove_chunk"
    /\ set_last.chunk.key \in DOMAIN set_pre
    /\ set_last.chunk.key \notin DOMAIN chunk_bits
    /\ Cardinality(set_last.chunk.bits) > Cardinality(set_pre[set_last.chunk.key])
    /\ DOMAIN chunk_bits # {}

\* every key but `key` has the same entry, or no entry, in both bitsets
SameElsewhere(set1, set2, key) ==
    /\ (DOMAIN set1) \ {key} = (DOMAIN set2) \ {key}
    /\ \A k \in (DOMAIN set1) \ {key} : set1[k] = set2[k]

\* C17: after insert_chunk(c) the stored word at c.key is old | c.bits and
\* all other keys are unchanged; the returned chunk has key c.key and bits
\* c.bits & ~old; when c.bits == 0 the set is unchanged and no entry is
\* created.
C17_InsertChunk ==
    set_last.op = "insert_chunk" =>
        LET c == set_last.chunk
            old == Word(set_pre, c.key)
        IN /\ Word(chunk_bits, c.key) = old \cup c.bits
           /\ SameElsewhere(chunk_bits, set_pre, c.key)
           /\ set_last.ret.key = c.key
           /\ set_last.ret.bits = c.bits \ old
           /\ (c.bits = {} => chunk_bits = set_pre)

\* C17 witness: insert_chunk has added a chunk of which one bit was stored
\* and one was not, to an entry that had a further bit, next to another entry.
C17_Witness ==
    /\ set_last.op = "insert_chunk"
    /\ set_last.chunk.key \in DOMAIN set_pre
    /\ set_pre[set_last.chunk.key] \cap set_last.chunk.bits # {}
    /\ set_pre[set_last.chunk.key] \ set_last.chunk.bits # {}
    /\ set_last.chunk.bits \ set_pre[set_last.chunk.key] # {}
    /\ (DOMAIN set_pre) \ {set_last.chunk.key} # {}

\* C18: after remove_chunk(c) the stored word at c.key is old & ~c.bits, with
\* the entry deleted when that is zero, and all other keys are unchanged; the
\* returned chunk has bits old & c.bits, zero when the key was absent.
C18_RemoveChunk ==
    set_last.op = "remove_chunk" =>
        LET c == set_last.chunk
            old == Word(set_pre, c.key)
        IN /\ Word(chunk_bits, c.key) = old \ c.bits
           /\ (old \ c.bits = {} => c.key \notin DOMAIN chunk_bits)
           /\ SameElsewhere(chunk_bits, set_pre, c.key)
           /\ set_last.ret.bits = old \cap c.bits
           /\ (c.key \notin DOMAIN set_pre => set_last.ret.bits = {})

\* C18 witness: remove_chunk has taken away a chunk of which one bit was
\* stored and one was not, from an entry that keeps a further bit, next to
\* another entry.
C18_Witness ==
    /\ set_last.op = "remove_chunk"
    /\ set_last.chunk.key \in DOMAIN set_pre
    /\ set_pre[set_last.chunk.key] \cap set_last.chunk.bits # {}
    /\ set_pre[set_last.chunk.key] \ set_last.chunk.bits # {}
    /\ set_last.chunk.bits \ set_pre[set_last.chunk.key] # {}
    /\ (DOMAIN set_pre) \ {set_last.chunk.key} # {}

\* the indexes that the chunks of the calls can stand for
AllIndexes == UNION {ChunkMembers(c) : c \in Chunks}

\* C19: the bitset is the set of the indexes inserted and not removed since:
\* contains(j) is true exactly for these; insert(i) returns true iff i was
\* absent before and remove(i) returns true iff i was present before; hence
\* the matrix form's add_edge(p, s) returns true iff the edge is new.
C19_SetSemantics ==
    /\ \A j \in AllIndexes : contains(chunk_bits, j) <=> j \in members
    /\ SetMembers(chunk_bits) = members
    /\ set_last.op = "insert"
          => /\ set_last.changed = (set_last.index \notin SetMembers(set_pre))
             /\ contains(chunk_bits, set_last.index)
    /\ set_last.op = "remove"
          => /\ set_last.changed = (set_last.index \in SetMembers(set_pre))
             /\ ~ contains(chunk_bits, set_last.index)
    /\ \A s \in Indexes :
          LET a == matrix_add([p \in {0} |-> chunk_bits], 0, s)
          IN /\ a.changed = (s \notin members)
             /\ SetMembers(a.vector[0]) = members \cup {s}
    /\ mlast.op = "add_edge"
          => mlast.ret = (<<mlast.p, mlast.s>> \notin Cells(mpre))

\* C19 witness: remove(i) has taken an index out of a bitset that keeps
\* indexes of both chunks, one of them in the chunk of i.
C19_Witness ==
    /\ set_last.op = "remove"
    /\ set_last.changed
    /\ \E j \in members : j \div WordBits = set_last.index \div WordBits
    /\ \E j \in members : j \div WordBits # set_last.index \div WordBits

\* ------------------------------------------------ SparseBitMatrix::merge
\* matrix, SparseBitMatrix::merge(read, write)
Merge(read, write) ==
    /\ mstatus = "ok"
    /\ mlast = MNoCall
    /\ LET m == merge(adjacency, read, write)
       IN /\ Cardinality(Cells(m.vector)) <= MaxMergedCells
          /\ adjacency' = m.vector
          /\ mlast' = [MNoCall EXCEPT !.op = "merge", !.p = read, !.s = write,
                                      !.ret = m.changed]
    /\ mpre' = adjacency
    /\ mstatus' = mstatus
    /\ UNCHANGED lvars
    /\ UNCHANGED svars

NextMerge ==
    \/ \E row \in MNodes, column \in MNodes : MatrixAddEdge(row, column)
    \/ MatrixTest
    \/ \E read \in MNodes, write \in MNodes : Merge(read, write)

SpecMerge == Init /\ [][NextMerge]_vars

\* C20: after merge(source, target) row target is old target united with row
\* source, every other row is unchanged, and the result is true iff row
\* target gained a bit; with source == target the matrix is unchanged and the
\* result is false.
C20_Merge ==
    mlast.op = "merge" =>
        LET source == mlast.p
            target == mlast.s
        IN /\ SetMembers(adjacency[target]) =
                  SetMembers(mpre[target]) \cup SetMembers(mpre[source])
           /\ SeqRange(set_iter(adjacency[target])) =
                  SeqRange(set_iter(mpre[target])) \cup SeqRange(set_iter(mpre[source]))
           /\ NoZeroChunk(adjacency[target])
           /\ \A r \in MNodes \ {target} : adjacency[r] = mpre[r]
           /\ mlast.ret = (SetMembers(adjacency[target]) # SetMembers(mpre[target]))
           /\ (source = target => (adjacency = mpre /\ ~ mlast.ret))

\* C20 witness: merge has copied a row with columns in both chunks into another
\* row that had one of these columns and gained the other.
C20_Witness ==
    /\ mlast.op = "merge"
    /\ mlast.p # mlast.s
    /\ mlast.ret
    /\ Cardinality(DOMAIN mpre[mlast.p]) = 2
    /\ SetMembers(mpre[mlast.p]) \cap SetMembers(mpre[mlast.s]) # {}
    /\ SetMembers(mpre[mlast.p]) \ SetMembers(mpre[mlast.s]) # {}

\* ---------------------------------------------- SparseBitMatrix::is_subset
\* matrix, SparseBitMatrix::is_subset(sub, sup): takes &self, the matrix stays
\* as it is and the answer is recorded
IsSubset(sub, sup) ==
    /\ mstatus = "ok"
    /\ mlast = MNoCall
    /\ mlast' = [MNoCall EXCEPT !.op = "is_subset", !.p = sub, !.s = sup,
                                !.ret = is_subset(adjacency, sub, sup)]
    /\ mpre' = adjacency
    /\ UNCHANGED <<adjacency, mstatus>>
    /\ UNCHANGED lvars
    /\ UNCHANGED svars

NextSubset ==
    \/ \E row \in MNodes, column \in MNodes : MatrixAddEdge(row, column)
    \/ MatrixTest
    \/ \E read \in MNodes, write \in MNodes : Merge(read, write)
    \/ \E sub \in MNodes, sup \in MNodes : IsSubset(sub, sup)

SpecSubset == Init /\ [][NextSubset]_vars

\* C21: is_subset(sub, sup) answers true exactly when every member of row sub
\* is a member of row sup, also for sub == sup and for an empty row sub, and
\* the matrix is the same after the call.
C21_IsSubset ==
    mlast.op = "is_subset" =>
        /\ mlast.ret = (SetMembers(mpre[mlast.p]) \subseteq SetMembers(mpre[mlast.s]))
        /\ mlast.ret = (SeqRange(set_iter(mpre[mlast.p])) \subseteq
                            SeqRange(set_iter(mpre[mlast.s])))
        /\ (mlast.p = mlast.s => mlast.ret)
        /\ (SetMembers(mpre[mlast.p]) = {} => mlast.ret)
        /\ adjacency = mpre

\* C21 witness: is_subset has answered true for two different rows, the
\* smaller one with columns in both chunks and the larger one with a column
\* more.
C21_Witness ==
    /\ mlast.op = "is_subset"
    /\ mlast.p # mlast.s
    /\ mlast.ret
    /\ Cardinality(DOMAIN mpre[mlast.p]) = 2
    /\ SetMembers(mpre[mlast.s]) \ SetMembers(mpre[mlast.p]) # {}

\* is_subset has answered false for a row that shares one of its two chunks
\* with the other row.
C21_WitnessFalse ==
    /\ mlast.op = "is_subset"
    /\ ~ mlast.ret
    /\ Cardinality(DOMAIN mpre[mlast.p]) = 2
    /\ SetMembers(mpre[mlast.s]) \cap SetMembers(mpre[mlast.p]) # {}

\* -------------------------------------------------- for_each_reachable
\* A relation of either form is built, then walked.  The list form takes
\* add_edge and remove_edges calls, the matrix form add_edge calls (every
\* matrix of that many cells is built by them).
ReachAddEdge(p, s) ==
    /\ steps < MaxReachOps
    /\ adjacency = SparseBitMatrixNew /\ mlast = MNoCall
    /\ AddEdge(p, s)

ReachRemoveEdges(n) ==
    /\ steps < MaxReachOps
    /\ adjacency = SparseBitMatrixNew /\ mlast = MNoCall
    /\ RemoveEdges(n)

ReachMatrixAddEdge(row1, row2) ==
    /\ steps = 0
    /\ MatrixAddEdge(row1, row2)

ReachMatrixTest ==
    /\ steps = 0
    /\ MatrixTest

NextReach ==
    \/ \E p \in Nodes, s \in Nodes : ReachAddEdge(p, s)
    \/ \E n \in Nodes : ReachRemoveEdges(n)
    \/ \E row1 \in MNodes, row2 \in MNodes : ReachMatrixAddEdge(row1, row2)
    \/ ReachMatrixTest

SpecReach == Init /\ [][NextReach]_vars

\* the nodes of N to which E has a path from n, n itself included
Reachable(E, N, n) == DeadReach(E, N, {n})

\* the visitor was called exactly once for each node of S and for no other
VisitsExactly(f, S) ==
    /\ f.status = "ok"
    /\ SeqRange(f.calls) = S
    /\ Len(f.calls) = Cardinality(S)

\* C22: on every relation state, cyclic ones and ones with self-loops
\* included, for_each_reachable(n, visitor) ends and calls the visitor exactly
\* once for n and for every node reachable from n along successors, and for no
\* other node; in the list form and in the matrix form.
C22_ForEachReachable ==
    /\ status = "ok" =>
         LET succ == edge_successors(Rel)
             finite == edge_finite(Rel)
             E == {<<p, s>> \in Nodes \X Nodes : s \in SeqRange(succ[p])}
         IN \A n \in Nodes :
                VisitsExactly(for_each_reachable(succ, finite, n),
                              Reachable(E, Nodes, n))
    /\ mstatus = "ok" =>
         LET succ == matrix_successors(adjacency)
             finite == matrix_finite(adjacency)
             E == {<<p, s>> \in MNodes \X MNodes : s \in SeqRange(succ[p])}
         IN \A n \in MNodes :
                VisitsExactly(for_each_reachable(succ, finite, n),
                              Reachable(E, MNodes, n))

\* C22 witness, list form: the relation holds a cycle through n, a self-loop
\* on a node that n reaches, and a node that n does not reach.
C22_Witness ==
    /\ status = "ok"
    /\ \E n \in Nodes :
         LET E == SuccPairs(Rel)
             R == Reachable(E, Nodes, n)
         IN /\ Cardinality(R) >= 2
            /\ R # Nodes
            /\ \E m \in R \ {n} : <<m, n>> \in E
            /\ \E m \in R : <<m, m>> \in E
            /\ for_each_reachable(edge_successors(Rel), edge_finite(Rel), n).calls[1] = n

\* C22 witness, matrix form: the same on the matrix, with the cycle through
\* a node of the second chunk.
C22_WitnessMatrix ==
    /\ mstatus = "ok"
    /\ \E n \in MNodes :
         LET E == Cells(adjacency)
             R == Reachable(E, MNodes, n)
         IN /\ Cardinality(R) >= 2
            /\ R # MNodes
            /\ \E m \in R \ {n} : <<m, n>> \in E /\ (m \div WordBits # n \div WordBits)

\* --------------------------------------------- identifiers out of range
\* Relation::add_edge of the list form with any identifiers.  Vec indexing
\* panics on an index past the end: self.node(predecessor) is read first (by
\* the duplicate scan's iterator), self.node(successor) after the scan, and
\* both before alloc_edge writes anything.
add_edge(r, predecessor, successor) ==
    IF predecessor \notin Nodes THEN [r |-> Panic(r), ret |-> FALSE]
    ELSE LET scan == DuplicateScan(r, predecessor, successor)
         IN IF scan = "found" THEN [r |-> r, ret |-> FALSE]
            ELSE IF scan = "diverge" THEN [r |-> Diverge(r), ret |-> FALSE]
            ELSE IF successor \notin Nodes THEN [r |-> Panic(r), ret |-> FALSE]
            ELSE add_edge_internal(r, predecessor, successor)

\* Relation::add_edge of the matrix form with any identifiers:
\* self.vector[row] panics on a row past the end, insert(column) takes any
\* column (SparseBitMatrix::new drops `_columns`)
matrix_add_edge(vector, row1, row2) ==
    IF row1 \notin DOMAIN vector
    THEN [vector |-> vector, changed |-> FALSE, status |-> "panic"]
    ELSE LET a == matrix_add(vector, row1, row2)
         IN [vector |-> a.vector, changed |-> a.changed, status |-> "ok"]

\* the first identifier past the nodes of each form
ListPastEnd == NumNodes
MatrixPastEnd == WordBits + 1

\* list form, add_edge(p, s) with p or s past the end
AddEdgeOutOfRange(p, s) ==
    /\ status = "ok"
    /\ steps < MaxReachOps
    /\ adjacency = SparseBitMatrixNew /\ mlast = MNoCall
    /\ p = ListPastEnd \/ s = ListPastEnd
    /\ steps' = steps + 1
    /\ used' = used
    /\ LET a == add_edge(Rel, p, s)
       IN /\ SetRel(a.r)
          /\ last' = [op |-> "add_edge_out_of_range", p |-> p, s |-> s,
                      ret |-> a.ret]
    /\ pre' = Rel
    /\ UNCHANGED mvars
    /\ UNCHANGED svars

\* matrix form, add_edge(row1, row2) with row1 or row2 past the end
MatrixAddEdgeOutOfRange(row1, row2) ==
    /\ mstatus = "ok"
    /\ steps = 0
    /\ mlast = MNoCall
    /\ row1 = MatrixPastEnd \/ row2 = MatrixPastEnd
    /\ LET a == matrix_add_edge(adjacency, row1, row2)
       IN /\ adjacency' = a.vector
          /\ mstatus' = a.status
          /\ mlast' = [MNoCall EXCEPT !.op = "add_edge_out_of_range",
                                      !.p = row1, !.s = row2, !.ret = a.changed]
    /\ mpre' = adjacency
    /\ UNCHANGED lvars
    /\ UNCHANGED svars

NextRange ==
    \/ \E p \in Nodes, s \in Nodes : ReachAddEdge(p, s)
    \/ \E n \in Nodes : ReachRemoveEdges(n)
    \/ \E p \in Nodes \cup {ListPastEnd}, s \in Nodes \cup {ListPastEnd} :
           AddEdgeOutOfRange(p, s)
    \/ \E row1 \in MNodes, row2 \in MNodes : ReachMatrixAddEdge(row1, row2)
    \/ ReachMatrixTest
    \/ \E row1 \in MNodes \cup {MatrixPastEnd}, row2 \in MNodes \cup {MatrixPastEnd} :
           MatrixAddEdgeOutOfRange(row1, row2)

SpecRange == Init /\ [][NextRange]_vars

\* the endpoints of the edges the list form yields, and of the slots off the
\* free list
ListEndpoints(r) ==
    LET free == SeqRange(FreeList(r).list)
    IN UNION {{r.edges[e].nodes.incoming, r.edges[e].nodes.outgoing} :
                  e \in (1 .. Len(r.edges)) \ free}

\* list form: add_edge with an identifier past the end aborts or answers
\* false, and nodes, edge slots and free list are as before
ListOutOfRangeHarmless ==
    last.op = "add_edge_out_of_range" =>
        /\ nodes = pre.nodes /\ edges = pre.edges
        /\ edge_free_list = pre.edge_free_list
        /\ (status = "ok" => ~ last.ret)
        /\ ListEndpoints(Rel) \subseteq Nodes

\* matrix form: add_edge with an identifier past the end aborts or leaves the
\* matrix as before, and no row holds a column past the end
MatrixOutOfRangeHarmless ==
    mlast.op = "add_edge_out_of_range" =>
        /\ adjacency = mpre
        /\ \A r \in MNodes : SetMembers(adjacency[r]) \subseteq MNodes

\* C23: in both forms add_edge(p, s) with p or s outside [0, num_nodes)
\* aborts before any mutation or leaves the relation unchanged, and never
\* stores an edge with an endpoint outside [0, num_nodes).
C23_OutOfRange == ListOutOfRangeHarmless /\ MatrixOutOfRangeHarmless

\* ------------------------------------------------ growth of the edge store
\* C24: alloc_edge appends a slot only when the free list is empty and
\* otherwise reuses its head, so after any sequence of add_edge and
\* remove_edges calls the edge store has at most as many slots as the largest
\* number of edges the relation held at one time so far.
C24_BoundedSlotGrowth == status = "ok" => Len(edges) <= peak

\* ------------------------------------------- remove_edges, case by case
\* the only edge at node n is the self-loop n -> n
OnlySelfLoop(r, n) ==
    LET out == edges_iter(r, n, Outgoing)
        in == edges_iter(r, n, Incoming)
    IN /\ out.end = None /\ in.end = None
       /\ Len(out.list) = 1
       /\ in.list = out.list
       /\ r.edges[out.list[1]].nodes = Indices(n, n)

\* C25: remove_edges(n) on a node whose only edge is the self-loop n -> n
\* returns normally, leaves n without incoming and without outgoing edge, and
\* the slot of the self-loop is on the free list exactly once.
C25_SelfLoopOnly ==
    (last.op = "remove_edges" /\ OnlySelfLoop(pre, last.p)) =>
        LET n == last.p
            e == pre.nodes[n].first_edges.outgoing
        IN /\ status = "ok"
           /\ nodes[n].first_edges = Indices(None, None)
           /\ successors(Rel, n) = << >> /\ predecessors(Rel, n) = << >>
           /\ Holders(Rel, e, Outgoing) = 0 /\ Holders(Rel, e, Incoming) = 0
           /\ Count(FreeList(Rel).list, e) = 1

\* C25 witness: the self-loop was removed from a relation that holds another
\* edge and had a slot on the free list.
C25_Witness ==
    /\ last.op = "remove_edges" /\ OnlySelfLoop(pre, last.p)
    /\ status = "ok"
    /\ pre.edge_free_list # None
    /\ SuccPairs(Rel) # {}

\* C26: every edge (a, b) with a # n and b # n that was present before
\* remove_edges(n) is present afterwards in both views: successors(a) yields b
\* and predecessors(b) yields a.
C26_Frame ==
    Removed =>
        \A a \in Nodes \ {last.p}, b \in Nodes \ {last.p} :
            (<<a, b>> \in SuccPairs(pre) /\ <<a, b>> \in PredPairs(pre)) =>
                (<<a, b>> \in SuccPairs(Rel) /\ <<a, b>> \in PredPairs(Rel))

\* remove_edges(n) was called on a node with `in` incoming and `out` outgoing
\* edges, counted as count_edges_saturating counts them (2 stands for >= 2)
RemovedCase(in, out) ==
    /\ Removed
    /\ count_edges_saturating(pre, last.p, Incoming) = in
    /\ count_edges_saturating(pre, last.p, Outgoing) = out

\* slot e was kept by the call: it is off the free list, with
\* nodes[direction] as before and `target` as its other endpoint
Redirected(e, direction, target) ==
    /\ e \notin SeqRange(FreeList(Rel).list)
    /\ edges[e].nodes[direction] = pre.edges[e].nodes[direction]
    /\ edges[e].nodes[invert(direction)] = target

\* exactly the slot `freed` went to the free list, and no slot was allocated
OneSlotFreed(freed) ==
    /\ FreeList(Rel).list = <<freed>> \o FreeList(pre).list
    /\ Len(edges) = Len(pre.edges)

C29_ManyInManyOut ==
    RemovedCase(2, 2) =>
        LET n == last.p
            former_predecessors == SeqRange(predecessors(pre, n))
            former_successors == SeqRange(successors(pre, n))
        IN /\ nodes[n].first_edges = Indices(None, None)
           /\ \A p \in former_predecessors, s \in former_successors :
                 /\ Count(successors(Rel, p), s) = 1
                 /\ Count(predecessors(Rel, s), p) = 1

\* ------------------------------------------------------ redirection order
\* sequence q back to front
Reversed(q) == [i \in 1 .. Len(q) |-> q[Len(q) + 1 - i]]

\* `after` is relation r after node's list in `direction` was redirected to
\* `target`: target's list is node's former list reversed, followed by
\* target's previous list, and node's list is empty
RedirectedInOrder(r, after, direction, node, target) ==
    /\ after.status = "ok"
    /\ edges_iter(after, target, direction).end = None
    /\ edges_iter(after, target, direction).list =
          Reversed(edges_iter(r, node, direction).list)
              \o edges_iter(r, target, direction).list
    /\ edges_iter(after, node, direction).list = << >>

\* C30: after redirect_incoming_edges(n, s), s's incoming list is n's former
\* incoming list in reversed order followed by s's previous incoming list and
\* n's incoming list is empty; the same for redirect_outgoing_edges(n, p) and
\* the outgoing lists.  Stated of the calls remove_edges makes.
C30_RedirectionOrder ==
    /\ (RemovedCase(1, 1) \/ RemovedCase(2, 1)) =>
          LET m == move_only_outgoing_edge_to_free_list(pre, last.p)
          IN m.r.status = "ok" =>
                RedirectedInOrder(m.r, redirect_incoming_edges(m.r, last.p, m.node),
                                  Incoming, last.p, m.node)
    /\ RemovedCase(1, 2) =>
          LET m == move_only_incoming_edge_to_free_list(pre, last.p)
          IN m.r.status = "ok" =>
                RedirectedInOrder(m.r, redirect_outgoing_edges(m.r, last.p, m.node),
                                  Outgoing, last.p, m.node)

\* ------------------------------------------------------ add_edge, lists
\* C31: when add_edge(p, s) returns true, the new edge slot is the head of
\* p's outgoing list and of s's incoming list, the rest of each of these two
\* lists is the list as it was before the call, and the lists of all other
\* nodes are unchanged.
C31_AddEdgeLists ==
    (Added /\ last.ret) =>
        LET p == last.p
            s == last.s
            new == IF pre.edge_free_list # None THEN pre.edge_free_list
                   ELSE Len(pre.edges) + 1
        IN /\ nodes[p].first_edges.outgoing = new
           /\ nodes[s].first_edges.incoming = new
           /\ edges[new].nodes = Indices(p, s)
           /\ edges_iter(Rel, p, Outgoing) =
                 [list |-> <<new>> \o edges_iter(pre, p, Outgoing).list,
                  end |-> edges_iter(pre, p, Outgoing).end]
           /\ edges_iter(Rel, s, Incoming) =
                 [list |-> <<new>> \o edges_iter(pre, s, Incoming).list,
                  end |-> edges_iter(pre, s, Incoming).end]
           /\ \A n \in Nodes \ {p} :
                 edges_iter(Rel, n, Outgoing) = edges_iter(pre, n, Outgoing)
           /\ \A n \in Nodes \ {s} :
                 edges_iter(Rel, n, Incoming) = edges_iter(pre, n, Incoming)

\* add_edge returned true at a predecessor that had outgoing edges and a
\* successor that had incoming edges, onto a slot taken from the free list
C31_Witness ==
    /\ Added /\ last.ret
    /\ pre.edge_free_list # None
    /\ edges_iter(pre, last.p, Outgoing).list # << >>
    /\ edges_iter(pre, last.s, Incoming).list # << >>

\* ---------------------------------------------------- free list as a stack
\* q without its first k elements
DropFirst(q, k) == SubSeq(q, k + 1, Len(q))

\* the net effect of pushes and pops on the stack `before`: `after` is some
\* slots that were not on `before`, on top of a bottom part of `before`
PoppedThenPushed(before, after) ==
    \E k \in 0 .. Len(after) :
        /\ \E j \in 0 .. Len(before) : DropFirst(after, k) = DropFirst(before, j)
        /\ \A i \in 1 .. k : after[i] \notin SeqRange(before)

\* C32: the edge free list is a LIFO stack threaded through the outgoing
\* next field: a freed slot becomes the head with the previous head as its
\* next, and alloc_edge hands out the head and makes that slot's next-free
\* link the new head.
C32_FreeListLifo ==
    LET before == FreeList(pre)
        after == FreeList(Rel)
    IN /\ (Added /\ last.ret /\ pre.edge_free_list # None) =>
             /\ nodes[last.p].first_edges.outgoing = pre.edge_free_list
             /\ edge_free_list = pre.edges[pre.edge_free_list].next_edges.outgoing
             /\ after.list = Tail(before.list)
       /\ (Added /\ ~(last.ret /\ pre.edge_free_list # None)) => after = before
       /\ (Removed /\ count_edges_saturating(pre, last.p, Incoming) = 0) =>
             after.list = Reversed(edges_iter(pre, last.p, Outgoing).list)
                             \o before.list
       /\ (Removed /\ count_edges_saturating(pre, last.p, Incoming) # 0
                   /\ count_edges_saturating(pre, last.p, Outgoing) = 0) =>
             after.list = Reversed(edges_iter(pre, last.p, Incoming).list)
                             \o before.list
       /\ Removed => PoppedThenPushed(before.list, after.list)

\* add_edge reused the head of a free list that held two slots or more
C32_Witness ==
    /\ Added /\ last.ret
    /\ Len(FreeList(pre).list) >= 2
    /\ edge_free_list # None

\* remove_edges pushed two slots or more onto a free list that was not empty
C32_WitnessPush ==
    /\ Removed
    /\ count_edges_saturating(pre, last.p, Incoming) = 0
    /\ count_edges_saturating(pre, last.p, Outgoing) = 2
    /\ pre.edge_free_list # None

\* ------------------------------------------- remove_all_cycle, both forms
\* The two remove_all_cycle tests: calls on a list-form relation, or calls
\* on a matrix-form relation.
CycleAddEdge(p, s) ==
    /\ adjacency = SparseBitMatrixNew /\ mlast = MNoCall
    /\ AddEdge(p, s)

CycleRemoveEdges(n) ==
    /\ adjacency = SparseBitMatrixNew /\ mlast = MNoCall
    /\ RemoveEdges(n)

CycleMatrixAddEdge(row1, row2) ==
    /\ steps = 0
    /\ MatrixAddEdge(row1, row2)

CycleKill(live_nodes, dead) ==
    /\ steps = 0
    /\ Kill(live_nodes, dead)

CycleMatrixTest ==
    /\ steps = 0
    /\ MatrixTest

NextCycle ==
    \/ \E p \in Nodes, s \in Nodes : CycleAddEdge(p, s)
    \/ \E n \in Nodes : CycleRemoveEdges(n)
    \/ \E row1 \in MNodes, row2 \in MNodes : CycleMatrixAddEdge(row1, row2)
    \/ \E dead \in SUBSET MNodes :
         \E live_nodes \in Perms(MNodes \ dead) : CycleKill(live_nodes, dead)
    \/ CycleMatrixTest

SpecCycle == Init /\ [][NextCycle]_vars

\* C33: two-cycle collapse in both forms: when a->n and n->a are edges and n
\* is removed (remove_edges(n), or remove_dead_nodes with n the only dead
\* node), the self-loop a->a is present afterwards.
C33_TwoCycleCollapse ==
    /\ last.op = "remove_edges" =>
          \A a \in Nodes \ {last.p} :
              (<<a, last.p>> \in SuccPairs(pre) /\ <<last.p, a>> \in SuccPairs(pre))
                  => (status = "ok" /\ <<a, a>> \in SuccPairs(Rel))
    /\ mlast.op = "remove_dead_nodes" =>
          \A n \in MNodes : \A a \in MNodes \ {n} :
              (mlast.dead = {n} /\ <<a, n>> \in Cells(mpre) /\ <<n, a>> \in Cells(mpre))
                  => (mstatus = "ok" /\ <<a, a>> \in Cells(adjacency))

\* ------------------------------------------------- matrix form: memo table
\* remove_dead_nodes at the moment its first loop has processed the first k
\* live sources: the matrix, the memo table and the calls made so far
AfterSources(k) ==
    RemoveLoop([adjacency |-> mpre, live_targets |-> SparseBitSetNew,
                status |-> "ok", calls |-> << >>],
               SubSeq(mlast.live, 1, k),
               DeadBits(SparseBitSetNew, SortedKeys(mlast.dead), 1),
               1, 1, << >>, FALSE)

\* C34: within one remove_dead_nodes call find_live_targets is called at
\* most once per dead node, and a frontier taken from the memo table for a
\* later live source is the frontier that find_live_targets would compute
\* at that moment, because the rows of dead nodes are not written before
\* all live sources have been processed.
C34_Memoization ==
    Killed =>
        LET dead_nodes == DeadBits(SparseBitSetNew, SortedKeys(mlast.dead), 1)
        IN /\ \A i \in DOMAIN mlast.calls : \A j \in DOMAIN mlast.calls :
                 i # j => mlast.calls[i] # mlast.calls[j]
           /\ SeqRange(mlast.calls) \subseteq mlast.dead
           /\ \A k \in 0 .. Len(mlast.live) :
                 LET m == AfterSources(k)
                 IN /\ \A d \in mlast.dead : m.adjacency[d] = mpre[d]
                    /\ DOMAIN m.live_targets = SeqRange(m.calls)
                    /\ \A d \in DOMAIN m.live_targets :
                          m.live_targets[d] =
                             find_live_targets(m.adjacency, d, dead_nodes).result

\* two live sources had an edge to the same dead node, which had an edge to
\* a live node: the frontier computed for the first source, whose row was
\* then rewritten, was taken from the memo table for the second
C34_Witness ==
    /\ Killed
    /\ Len(mlast.calls) = 1
    /\ \E d \in mlast.dead : \E a \in MNodes \ mlast.dead :
          \E c \in MNodes \ (mlast.dead \cup {a}) :
             /\ {<<a, d>>, <<c, d>>, <<d, a>>} \subseteq Cells(mpre)
             /\ <<c, a>> \notin Cells(mpre)
             /\ <<c, a>> \in Cells(adjacency)
             /\ AfterSources(1).adjacency # mpre

\* ---------------------------------------------- find_live_targets, worklist
\* the find_live_targets calls of the last remove_dead_nodes call, run again
\* on the matrix that the call worked on (C34)
LastFinds ==
    LET dead_nodes == DeadBits(SparseBitSetNew, SortedKeys(mlast.dead), 1)
    IN [i \in DOMAIN mlast.calls |->
           find_live_targets(mpre, mlast.calls[i], dead_nodes)]

\* C35: every chunk popped from the queue of find_live_targets holds dead
\* nodes only, so the assertion on the popped chunk never fails.
C35_WorklistOnlyDead ==
    mlast.op = "remove_dead_nodes" =>
        /\ mstatus = "ok"
        /\ \A i \in DOMAIN LastFinds :
              /\ LastFinds[i].status = "ok"
              /\ \A k \in DOMAIN LastFinds[i].popped :
                    SeqRange(chunk_iter(LastFinds[i].popped[k])) \subseteq mlast.dead

\* a call popped a chunk of a dead node found through another dead node's
\* row, the row holding live nodes as well
C35_Witness ==
    /\ Killed
    /\ \E i \in DOMAIN LastFinds :
          LET f == LastFinds[i]
          IN /\ \E k \in DOMAIN f.popped :
                   \E d \in SeqRange(chunk_iter(f.popped[k])) : d # mlast.calls[i]
             /\ \E d \in SeqRange(f.expanded) :
                   \E c \in MNodes \ mlast.dead : <<d, c>> \in Cells(mpre)

\* the nodes outside `dead` that a path from d reaches whose interior nodes
\* (d included) are all dead
LiveFrontier(E, dead, d) ==
    {b \in MNodes \ dead : \E x \in DeadReach(E, dead, {d}) : <<x, b>> \in E}

\* C36: find_live_targets(d, dead) terminates for every graph, dead cycles
\* and self-loops included, expands each dead node at most once, and returns
\* exactly the non-dead nodes reachable from d along dead nodes; its result
\* holds no dead node.  The call is made on the matrix and the dead set of
\* every remove_dead_nodes call, for every dead node d.
C36_FindLiveTargets ==
    mlast.op = "remove_dead_nodes" =>
        LET dead == mlast.dead
            dead_nodes == DeadBits(SparseBitSetNew, SortedKeys(dead), 1)
        IN \A d \in dead :
               LET f == find_live_targets(mpre, d, dead_nodes)
                   found == SeqRange(set_iter(f.result))
               IN /\ f.status = "ok"
                  /\ \A i \in DOMAIN f.expanded : \A j \in DOMAIN f.expanded :
                        i # j => f.expanded[i] # f.expanded[j]
                  /\ SeqRange(f.expanded) = DeadReach(Cells(mpre), dead, {d})
                  /\ found = LiveFrontier(Cells(mpre), dead, d)
                  /\ found \cap dead = {}
                  /\ \A x \in dead : ~ contains(f.result, x)

\* the dead nodes d and e form a cycle and e has an edge to a live node:
\* find_live_targets(d, {d, e}) walks the dead cycle
C36_Witness ==
    /\ Killed
    /\ \E d \in mlast.dead : \E e \in mlast.dead \ {d} : \E b \in MNodes \ mlast.dead :
          {<<d, e>>, <<e, d>>, <<e, b>>} \subseteq Cells(mpre)

\* the dead node d has a self-loop and a path through the dead node e to a
\* live node: find_live_targets(d, {d, e}) meets the dead self-loop
C36_WitnessSelfLoop ==
    /\ Killed
    /\ \E d \in mlast.dead : \E e \in mlast.dead \ {d} : \E b \in MNodes \ mlast.dead :
          {<<d, d>>, <<d, e>>, <<e, b>>} \subseteq Cells(mpre)

\* ------------------------------------------------------ matrix form: frame
\* the live node a had an edge to a dead node before the last call
HadDeadTarget(a) == \E d \in mlast.dead : <<a, d>> \in Cells(mpre)

\* C37: remove_dead_nodes(live, dead) leaves the row of every live source
\* without a dead target unchanged and removes no edge between two live
\* nodes; the rows it modifies are rows of live sources with a dead target
\* and rows of dead nodes.
C37_MatrixFrame ==
    Killed =>
        /\ \A a \in MNodes \ mlast.dead : ~ HadDeadTarget(a) => adjacency[a] = mpre[a]
        /\ \A a \in MNodes \ mlast.dead : \A b \in MNodes \ mlast.dead :
              <<a, b>> \in Cells(mpre) => <<a, b>> \in Cells(adjacency)
        /\ \A r \in MNodes :
              adjacency[r] # mpre[r] => (r \in mlast.dead \/ HadDeadTarget(r))

\* a call rewrote the row of a live source with a dead target and kept the
\* edge between two live nodes in the row of a source without one
C37_Witness ==
    /\ Killed
    /\ \E a \in MNodes \ mlast.dead :
          /\ ~ HadDeadTarget(a)
          /\ \E b \in MNodes \ mlast.dead : <<a, b>> \in Cells(mpre)
    /\ \E c \in MNodes \ mlast.dead :
          /\ HadDeadTarget(c)
          /\ adjacency[c] # mpre[c]
    /\ \E d \in mlast.dead : mpre[d] # SparseBitSetNew

\* ------------------------------------------------ list form: termination
\* C38: after any sequence of add_edge and remove_edges calls every node's
\* outgoing list, every node's incoming list and the free list are finite
\* and acyclic, so that successors, predecessors, the duplicate scan and
\* count_edges_saturating terminate.
C38_ListsAcyclic ==
    /\ status # "diverge"
    /\ status = "ok" =>
          /\ \A n \in Nodes :
                /\ edges_iter(Rel, n, Outgoing).end = None
                /\ edges_iter(Rel, n, Incoming).end = None
                /\ \A s \in Nodes : DuplicateScan(Rel, n, s) # "diverge"
          /\ FreeList(Rel).end = None

\* add_edge reused a slot that remove_edges had freed: a node has two
\* outgoing edges, a node has two incoming edges and the free list is not
\* empty
C38_Witness ==
    /\ Added /\ last.ret
    /\ pre.edge_free_list # None
    /\ edge_free_list # None
    /\ \E n \in Nodes : count_edges_saturating(Rel, n, Outgoing) = 2
    /\ \E n \in Nodes : count_edges_saturating(Rel, n, Incoming) = 2

\* --------------------------------------------------------- chunk encoding
StrictlyIncreasing(q) == \A i \in 1 .. (Len(q) - 1) : q[i] < q[i + 1]

\* C39: SparseChunk::one(i) has key i / 128 and exactly bit i mod 128 set,
\* and its iter() yields exactly i; the iter() of every chunk yields exactly
\* key * 128 + j for its set bits j, bit 127 included, in strictly
\* increasing order; SparseBitSet::iter yields all members in increasing
\* order.  The indexes and chunks are those that the calls on the bitset
\* are made with.
C39_ChunkEncoding ==
    /\ set_last.op \in {"insert", "remove"} =>
          LET i == set_last.index
          IN /\ one(i).key = i \div 128
             /\ one(i).bits = {i % 128}
             /\ chunk_iter(one(i)) = <<i>>
    /\ set_last.op \in {"insert_chunk", "remove_chunk"} =>
          LET chunk == set_last.chunk
              yielded == chunk_iter(chunk)
          IN /\ SeqRange(yielded) = {chunk.key * 128 + j : j \in chunk.bits}
             /\ StrictlyIncreasing(yielded)
    /\ LET yielded == set_iter(chunk_bits)
       IN /\ SeqRange(yielded) = members
          /\ StrictlyIncreasing(yielded)

\* iter() is called on a bitset that holds bit 0 and bit 127 of chunk 0 and
\* bit 0 of chunk 1
C39_Witness ==
    /\ set_last = SetNoCall
    /\ {0, 127, 128} \subseteq members
    /\ set_iter(chunk_bits)[Len(set_iter(chunk_bits))] = 128

\* a call was made with a chunk that has bit 127 and a lower bit set
C39_WitnessChunk ==
    /\ set_last.op = "insert_chunk"
    /\ {0, 127} \subseteq set_last.chunk.bits
    /\ chunk_iter(set_last.chunk)[Len(chunk_iter(set_last.chunk))]
          = set_last.chunk.key * 128 + 127

\* a call was made with index 127
C39_WitnessOne ==
    /\ set_last.op = "insert"
    /\ set_last.index = 127
    /\ one(127).bits = {127}

====
